---- MODULE Spec2Model ----
(***************************************************************************)
(* Model of mcps-proxy: the connection registry (MCPConnectionManager),    *)
(* its three connection kinds and the tool-name / cursor conversions.      *)
(*                                                                         *)
(* Strings are sequences of character codes (ASCII), so that indexOf,      *)
(* substring, btoa, atob and parseInt are computed as the code computes    *)
(* them.                                                                   *)
(***************************************************************************)
EXTENDS Integers, Sequences, FiniteSets, TLC

(***************************************************************************)
(* Bounds of the model.                                                    *)
(***************************************************************************)
\* largest number of tools / resources one backend exposes in the paging runs
MaxItems == 120
\* largest number of requests one Process Connection issues
MaxRequests == 3
\* largest number of subprocesses one Process Connection spawns
MaxSpawns == 2

(***************************************************************************)
(* Characters and strings.                                                 *)
(***************************************************************************)
\* "-", the separator searched by parseToolName and written by listTools
Dash == 45
\* "=", the base64 padding character
Pad == 61

\* "a", "a-b", "ghost": connection ids used as inputs
Id_a == <<97>>
Id_a_b == <<97, 45, 98>>
Id_ghost == <<103, 104, 111, 115, 116>>
\* "r", "b-r": tool names used as inputs
Tool_r == <<114>>
Tool_b_r == <<98, 45, 114>>

IsDigit(c) == c >= 48 /\ c <= 57
IsWhite(c) == c \in {9, 10, 11, 12, 13, 32}

\* String.prototype.indexOf(ch): 0-based index of the first ch, -1 if none
RECURSIVE IndexFrom(_, _, _)
IndexFrom(s, ch, i) ==
    IF i > Len(s) THEN -1
    ELSE IF s[i] = ch THEN i - 1
    ELSE IndexFrom(s, ch, i + 1)

indexOf(s, ch) == IndexFrom(s, ch, 1)

\* String.prototype.substring(from, to) for 0 <= from <= to <= length
substring(s, from, to) == SubSeq(s, from + 1, to)

\* Number.prototype.toString() of an integer
RECURSIVE NatToString(_)
NatToString(n) ==
    IF n < 10 THEN <<48 + n>>
    ELSE NatToString(n \div 10) \o <<48 + (n % 10)>>

toString(n) == IF n < 0 THEN <<Dash>> \o NatToString(0 - n) ELSE NatToString(n)

(***************************************************************************)
(* JavaScript numbers that may be NaN: [nan, v].                           *)
(***************************************************************************)
Num(n) == [nan |-> FALSE, v |-> n]
NaN == [nan |-> TRUE, v |-> 0]

\* parseInt(s, 10): leading white space, an optional sign, then the longest
\* run of digits; NaN when there is no digit
RECURSIVE SkipWhite(_)
SkipWhite(s) ==
    IF s # <<>> /\ IsWhite(s[1]) THEN SkipWhite(Tail(s)) ELSE s

RECURSIVE DigitsValue(_, _)
DigitsValue(s, acc) ==
    IF s # <<>> /\ IsDigit(s[1])
    THEN DigitsValue(Tail(s), acc * 10 + (s[1] - 48))
    ELSE acc

parseInt(str) ==
    LET s == SkipWhite(str)
        neg == s # <<>> /\ s[1] = Dash
        signed == s # <<>> /\ s[1] \in {Dash, 43}
        body == IF signed THEN Tail(s) ELSE s
    IN  IF body = <<>> \/ ~IsDigit(body[1]) THEN NaN
        ELSE IF neg THEN Num(0 - DigitsValue(body, 0))
        ELSE Num(DigitsValue(body, 0))

(***************************************************************************)
(* base64: btoa and atob.                                                  *)
(***************************************************************************)
B64Char(i) ==
    IF i < 26 THEN 65 + i
    ELSE IF i < 52 THEN 97 + (i - 26)
    ELSE IF i < 62 THEN 48 + (i - 52)
    ELSE IF i = 62 THEN 43
    ELSE 47

B64Val(c) ==
    IF c >= 65 /\ c <= 90 THEN c - 65
    ELSE IF c >= 97 /\ c <= 122 THEN c - 97 + 26
    ELSE IF c >= 48 /\ c <= 57 THEN c - 48 + 52
    ELSE IF c = 43 THEN 62
    ELSE IF c = 47 THEN 63
    ELSE -1

\* btoa(s) of a string of bytes
RECURSIVE btoa(_)
btoa(s) ==
    IF s = <<>> THEN <<>>
    ELSE IF Len(s) = 1
    THEN <<B64Char(s[1] \div 4), B64Char((s[1] % 4) * 16), Pad, Pad>>
    ELSE IF Len(s) = 2
    THEN <<B64Char(s[1] \div 4),
           B64Char((s[1] % 4) * 16 + (s[2] \div 16)),
           B64Char((s[2] % 16) * 4), Pad>>
    ELSE <<B64Char(s[1] \div 4),
           B64Char((s[1] % 4) * 16 + (s[2] \div 16)),
           B64Char((s[2] % 16) * 4 + (s[3] \div 64)),
           B64Char(s[3] % 64)>> \o btoa(SubSeq(s, 4, Len(s)))

RECURSIVE StripWhite(_)
StripWhite(s) ==
    IF s = <<>> THEN <<>>
    ELSE IF IsWhite(s[1]) THEN StripWhite(Tail(s))
    ELSE <<s[1]>> \o StripWhite(Tail(s))

StripPad(s) ==
    IF Len(s) > 0 /\ Len(s) % 4 = 0 /\ s[Len(s)] = Pad
    THEN IF s[Len(s) - 1] = Pad THEN SubSeq(s, 1, Len(s) - 2)
         ELSE SubSeq(s, 1, Len(s) - 1)
    ELSE s

RECURSIVE B64Bytes(_)
B64Bytes(s) ==
    IF Len(s) < 2 THEN <<>>
    ELSE LET a == B64Val(s[1])
             b == B64Val(s[2])
         IN  IF Len(s) = 2 THEN <<a * 4 + (b \div 16)>>
             ELSE LET c == B64Val(s[3])
                  IN  IF Len(s) = 3
                      THEN <<a * 4 + (b \div 16), (b % 16) * 16 + (c \div 4)>>
                      ELSE <<a * 4 + (b \div 16),
                             (b % 16) * 16 + (c \div 4),
                             (c % 4) * 64 + B64Val(s[4])>>
                           \o B64Bytes(SubSeq(s, 5, Len(s)))

\* atob(s): [ok |-> FALSE] stands for the InvalidCharacterError it throws
atob(str) ==
    LET s == StripPad(StripWhite(str))
    IN  IF Len(s) % 4 = 1 \/ \E i \in 1..Len(s) : B64Val(s[i]) = -1
        THEN [ok |-> FALSE, s |-> <<>>]
        ELSE [ok |-> TRUE, s |-> B64Bytes(s)]

(***************************************************************************)
(* Array.prototype.slice and the page computation of listTools /           *)
(* listResources.                                                          *)
(***************************************************************************)
Min(a, b) == IF a < b THEN a ELSE b
Max(a, b) == IF a > b THEN a ELSE b

\* ToIntegerOrInfinity followed by the relative-index clamp of slice
SliceIndex(n, len) ==
    IF n.nan THEN 0
    ELSE IF n.v < 0 THEN Max(len + n.v, 0)
    ELSE Min(n.v, len)

slice(arr, start, end) ==
    LET k == SliceIndex(start, Len(arr))
        f == SliceIndex(end, Len(arr))
    IN  SubSeq(arr, k + 1, f)

\* the start index decoded from the cursor; "" and undefined are falsy
CursorStart(cursor) ==
    IF cursor = <<>> THEN Num(0)
    ELSE LET d == atob(cursor)
         IN  IF d.ok THEN parseInt(d.s) ELSE Num(0)

NumAdd(n, k) == IF n.nan THEN NaN ELSE Num(n.v + k)
NumLess(n, k) == ~n.nan /\ n.v < k

\* floor division for negative dividends too (Math.floor(a / b), b > 0)
FloorDiv(a, b) == IF a >= 0 THEN a \div b ELSE 0 - ((0 - a + b - 1) \div b)
CeilDiv(a, b) == (a + b - 1) \div b

\* Paginate with nextCursor emitted when endIndex <= length
Paginate_CursorAtEnd(all, cursor, pageSize) ==
    LET startIndex == CursorStart(cursor)
        endIndex == NumAdd(startIndex, pageSize)
    IN  [items |-> slice(all, startIndex, endIndex),
         nextCursor |-> IF NumLess(endIndex, Len(all) + 1)
                        THEN btoa(toString(endIndex.v)) ELSE <<>>,
         total |-> Len(all),
         currentPage |-> IF startIndex.nan THEN NaN
                         ELSE Num(FloorDiv(startIndex.v, pageSize) + 1),
         totalPages |-> CeilDiv(Len(all), pageSize)]

\* the page, nextCursor (<<>> = undefined) and _meta of one call
Paginate(all, cursor, pageSize) ==
    LET startIndex == CursorStart(cursor)
        endIndex == NumAdd(startIndex, pageSize)
    IN  [items |-> slice(all, startIndex, endIndex),
         nextCursor |-> IF NumLess(endIndex, Len(all))
                        THEN btoa(toString(endIndex.v)) ELSE <<>>,
         total |-> Len(all),
         currentPage |-> IF startIndex.nan THEN NaN
                         ELSE Num(FloorDiv(startIndex.v, pageSize) + 1),
         totalPages |-> CeilDiv(Len(all), pageSize)]

(***************************************************************************)
(* State.                                                                  *)
(***************************************************************************)
VARIABLES
    \* MCPConnectionManager.schemas: registered schema name -> its servers,
    \* in registration order (SchemaConnections.servers)
    schemas,
    \* the JSON-RPC requests that reached a backend during the last
    \* manager operation
    sent,
    \* what the last manager operation returned or threw
    result,
    \* the paging client: the pages obtained so far by following nextCursor
    pages,
    \* the paging client: "idle", "tools", "resources" while it follows
    \* cursors, then "toolsDone" / "resourcesDone"
    walk,
    \* the connection object
    conn,
    \* the handler that ran last: its kind, who invoked it ("caller",
    \* "timer") and the status value it found
    ev,
    \* the caller's last lifecycle call: "none", "connect", "disconnect"
    intent,
    \* the NotificationManager: globalNotificationCallbacks,
    \* subscribedResources and the tokens of progressCallbacks
    hub,
    \* what the last call of the NotificationManager did, if it was a
    \* send*Notification
    delivery,
    \* the STDIO front end (StdioProxyServer) with the stdin and stdout of the
    \* proxy process
    front,
    \* the stdout pipe of the subprocess of a Process Connection: what the
    \* backend has written and the connection has not read yet
    pipe,
    \* Logger.logLevel of the process-wide logger
    logLevel

regVars == <<schemas, sent, result>>
clientVars == <<pages, walk>>
connVars == <<conn, ev, intent>>
hubVars == <<hub, delivery>>
frontVars == <<front>>
procVars == <<pipe, logLevel>>

\* no detailed connection object is under observation
NoConnection == [kind |-> "none"]
\* no handler of the connection has run yet
NoEvent ==
    [kind |-> "new", by |-> "none", before |-> "disconnected", arg |-> 0]
ConnIdle == conn = NoConnection /\ ev = NoEvent /\ intent = "none"

\* the fields of a NotificationManager after construction
NewNotificationManager ==
    [globalNotificationCallbacks |-> <<>>,
     subscribedResources |-> {},
     progressCallbacks |-> {}]
\* the last call sent no notification
NoDelivery ==
    [method |-> "none", uri |-> "", delivered |-> FALSE, before |-> <<>>,
     invoked |-> <<>>, unregistered |-> {}, registered |-> {},
     threw |-> {}, token |-> FALSE, raised |-> FALSE]
HubIdle == hub = NewNotificationManager /\ delivery = NoDelivery

\* the fields the constructor of StdioProxyServer initialises, with the
\* process's stdin and stdout: listening says the 'data' and 'end'
\* listeners are attached, timer that the timer of start() is armed, lines
\* holds the lines that arrived on stdin and stdout the lines written
NewStdioProxyServer ==
    [isRunning |-> FALSE,
     handleJsonRpcRequests |-> FALSE,
     requestId |-> 1,
     currentSchema |-> "default",
     listening |-> FALSE,
     timer |-> FALSE,
     stdin |-> "open",
     lines |-> <<>>,
     stdout |-> <<>>]
\* no STDIO front end is under observation
FrontIdle == front = NewStdioProxyServer

\* an empty pipe: nothing written, nothing to read
NewPipe == [stdout |-> <<>>, written |-> {}]
\* the levels of the logger (enum LogLevel) and the level of a new Logger
LogLevels == {"error", "warn", "info", "debug"}
DefaultLogLevel == "info"
\* nothing in the pipe and the logger as constructed
ProcIdle == pipe = NewPipe /\ logLevel = DefaultLogLevel

(***************************************************************************)
(* Inputs of the registry.                                                 *)
(***************************************************************************)
SchemaNames == {"default"}
CallerSchemas == {"default", "missing"}
ServerIds == {Id_a, Id_a_b}
ServerTypes == {"stdio", "none", "http", "sse"}
\* what the backend of a server does: "ok" answers every request, "down"
\* cannot be reached (spawn error, connection refused), "rejects" is
\* reachable but answers the initialize request with a JSON-RPC error
BackendModes == {"ok", "down", "rejects"}
ToolLists == {<<Tool_r>>, <<Tool_b_r, Tool_r>>}
ToolNames == {Tool_r, Tool_b_r}
Arguments == {[path |-> "x"], [path |-> "y"]}

\* the (type, backend) pairs of the configurations that are explored
ServerOptions ==
    {<<"stdio", "ok">>, <<"stdio", "down">>, <<"none", "ok">>,
     <<"http", "ok">>, <<"sse", "ok">>, <<"sse", "down">>,
     <<"sse", "rejects">>}

\* one entry of config.mcpServers with the backend it points to
ServerEntries ==
    {[id |-> i, type |-> o[1],
      backend |-> [mode |-> o[2], tools |-> t, resources |-> t]] :
        i \in ServerIds, o \in ServerOptions, t \in ToolLists}

DistinctIds(cfg) ==
    \A i, j \in 1..Len(cfg) : i # j => cfg[i].id # cfg[j].id

\* config.mcpServers: an object, so its keys are pairwise distinct
ServerConfigs ==
    {cfg \in UNION {[1..k -> ServerEntries] : k \in 1..Cardinality(ServerIds)} :
        DistinctIds(cfg)}

(***************************************************************************)
(* The three connection kinds, as far as the registry sees them.           *)
(* transport: "none" (no process / no EventSource), "up" (process spawned  *)
(* and not killed, EventSource OPEN).                                      *)
(***************************************************************************)
\* constructor of StdioMCPServer / HTTPMCPServer / SSEMCPServer
NewServer(entry) ==
    [id |-> entry.id,
     type |-> IF entry.type = "none" THEN "stdio" ELSE entry.type,
     status |-> "disconnected",
     toolCount |-> 0,
     transport |-> "none",
     backend |-> entry.backend]

StdioIsConnected(m) == m.status = "connected" /\ m.transport = "up"
HTTPIsConnected(m) == m.status = "connected"
SSEIsConnected(m) == m.transport = "up"

\* IMCPServer.isConnected()
IsConnected(m) ==
    CASE m.type = "stdio" -> StdioIsConnected(m)
      [] m.type = "http" -> HTTPIsConnected(m)
      [] m.type = "sse" -> SSEIsConnected(m)

\* StdioMCPServer.connect(), from spawn to the end of the handshake
StdioConnect(m) ==
    IF m.status = "connected" THEN [server |-> m, rejected |-> FALSE]
    ELSE IF m.backend.mode = "ok"
    THEN [server |-> [m EXCEPT !.transport = "up", !.status = "connected",
                               !.toolCount = Len(m.backend.tools)],
          rejected |-> FALSE]
    ELSE [server |-> [m EXCEPT !.transport = "up", !.status = "error"],
          rejected |-> TRUE]

\* HTTPMCPServer.connect(): testConnection calls sendRequest, which throws
\* unless isConnected()
HTTPConnect(m) ==
    IF m.status = "connected" THEN [server |-> m, rejected |-> FALSE]
    ELSE IF HTTPIsConnected(m) /\ m.backend.mode # "down"
    THEN [server |-> [m EXCEPT !.status = "connected",
                               !.toolCount = Len(m.backend.tools)],
          rejected |-> FALSE]
    ELSE [server |-> [m EXCEPT !.status = "error"], rejected |-> TRUE]

\* SSEMCPServer.connect(): a failed handshake leaves the EventSource open
SSEConnect(m) ==
    IF m.status = "connected" THEN [server |-> m, rejected |-> FALSE]
    ELSE IF m.backend.mode = "down"
    THEN [server |-> [m EXCEPT !.status = "error"], rejected |-> TRUE]
    ELSE IF m.backend.mode = "rejects"
    THEN [server |-> [m EXCEPT !.transport = "up", !.status = "error"],
          rejected |-> TRUE]
    ELSE [server |-> [m EXCEPT !.transport = "up", !.status = "connected",
                               !.toolCount = Len(m.backend.tools)],
          rejected |-> FALSE]

\* IMCPServer.connect()
Connect(m) ==
    CASE m.type = "stdio" -> StdioConnect(m)
      [] m.type = "http" -> HTTPConnect(m)
      [] m.type = "sse" -> SSEConnect(m)

\* the guard at the head of each kind's sendRequest
MaySend(m) ==
    CASE m.type = "stdio" -> m.transport = "up"
      [] m.type = "http" -> HTTPIsConnected(m)
      [] m.type = "sse" -> SSEIsConnected(m)

\* whether a request of the server reaches its backend and is answered
\* (otherwise sendRequest throws, or the request ends by its deadline)
Reaches(m) == MaySend(m) /\ m.backend.mode # "down"

\* SchemaConnections.connectAll(): every connect() runs, each rejection is
\* caught and logged
connectAll(servers) == [i \in 1..Len(servers) |-> Connect(servers[i]).server]

(***************************************************************************)
(* MCPConnectionManager.                                                   *)
(***************************************************************************)
ToolsPageSize == 50
ResourcesPageSize == 20

\* `${serverId}-${tool.name}`
PrefixedName(serverId, name) == serverId \o <<Dash>> \o name

\* the map callback of listTools: the tool with its name prefixed and the
\* default title `[${serverId}] ${tool.name}`
PrefixedTool(serverId, name) ==
    [name |-> PrefixedName(serverId, name),
     title |-> [server |-> serverId, tool |-> name]]

\* one turn of the loop of listTools: the tools one server contributes
ServerTools(m) ==
    IF IsConnected(m) /\ Reaches(m)
    THEN [i \in 1..Len(m.backend.tools) |->
             PrefixedTool(m.id, m.backend.tools[i])]
    ELSE <<>>

\* the requests one turn of that loop delivers to the backend
ServerListRequest(m, method) ==
    IF IsConnected(m) /\ Reaches(m)
    THEN <<[server |-> m.id, method |-> method, params |-> <<>>]>>
    ELSE <<>>

RECURSIVE AllTools(_)
AllTools(servers) ==
    IF servers = <<>> THEN <<>>
    ELSE ServerTools(Head(servers)) \o AllTools(Tail(servers))

\* one turn of the loop of listResources: resources keep their names
ServerResources(m) ==
    IF IsConnected(m) /\ Reaches(m)
    THEN [i \in 1..Len(m.backend.resources) |->
             [name |-> m.backend.resources[i], priority |-> "0.5"]]
    ELSE <<>>

RECURSIVE AllResources(_)
AllResources(servers) ==
    IF servers = <<>> THEN <<>>
    ELSE ServerResources(Head(servers)) \o AllResources(Tail(servers))

RECURSIVE ListRequests(_, _)
ListRequests(servers, method) ==
    IF servers = <<>> THEN <<>>
    ELSE ServerListRequest(Head(servers), method)
         \o ListRequests(Tail(servers), method)

\* MCPConnectionManager.hasSchema
hasSchema(schemaName) == schemaName \in DOMAIN schemas

\* what getSchema throws for an unknown schema
SchemaNotFound(op, schemaName) ==
    [op |-> op, schema |-> schemaName, threw |-> TRUE,
     value |-> [msg |-> "schemaNotFound", schemaName |-> schemaName]]

Returned(op, schemaName, v) ==
    [op |-> op, schema |-> schemaName, threw |-> FALSE, value |-> v]

\* MCPConnectionManager.parseToolName: <<>> stands for undefined
parseToolName(fullToolName) ==
    LET dashIndex == indexOf(fullToolName, Dash)
    IN  IF dashIndex = -1
        THEN [serverId |-> <<>>, toolName |-> <<>>]
        ELSE [serverId |-> substring(fullToolName, 0, dashIndex),
              toolName |-> substring(fullToolName, dashIndex + 1,
                                     Len(fullToolName))]

\* SchemaConnections.getServer: the index of the server, 0 for undefined
getServer(servers, serverId) ==
    IF \E i \in 1..Len(servers) : servers[i].id = serverId
    THEN CHOOSE i \in 1..Len(servers) : servers[i].id = serverId
    ELSE 0

ErrorResult(text) == [content |-> <<text>>, isError |-> TRUE]

\* the request server.callTool delivers to the backend
ToolCallRequest(m, toolName, arguments) ==
    [server |-> m.id, method |-> "tools/call",
     params |-> [name |-> toolName, arguments |-> arguments]]

\* the results a backend gives to tools/call: without isError, with
\* isError false and with isError true
ToolResults ==
    {[content |-> <<[msg |-> "backend", text |-> "done"]>>],
     [content |-> <<[msg |-> "backend", text |-> "done"]>>,
      isError |-> FALSE],
     [content |-> <<[msg |-> "backend", text |-> "failed"]>>,
      isError |-> TRUE]}

\* the messages of the errors server.callTool rejects with: the deadline,
\* a failed POST, the error field of the response
ToolCallErrors ==
    {"Request timeout: tools/call", "HTTP error: 500", "tool failed"}

\* what awaiting server.callTool gives: a result object, undefined (a
\* response with neither result nor error), or an exception
ToolResponses ==
    {[outcome |-> "result", result |-> r, message |-> ""] :
         r \in ToolResults}
    \cup {[outcome |-> "undefined", result |-> [content |-> <<>>],
           message |-> ""]}
    \cup {[outcome |-> "raise", result |-> [content |-> <<>>],
           message |-> m] : m \in ToolCallErrors}

\* a callTool that returns the backend's result as it is
Normalized_AsIs(r) == r

\* if (result.isError === undefined) result.isError = false
Normalized(r) ==
    IF "isError" \in DOMAIN r THEN r
    ELSE [f \in DOMAIN r \cup {"isError"} |->
             IF f = "isError" THEN FALSE ELSE r[f]]

\* the catch block of callTool
ToolExecutionError(message) ==
    ErrorResult([msg |-> "executionError", error |-> message])

\* the try block of callTool after server.callTool settled with resp;
\* reading isError of undefined throws a TypeError inside the try block
Delegated(resp) ==
    CASE resp.outcome = "result" -> Normalized(resp.result)
      [] resp.outcome = "undefined" -> ToolExecutionError("TypeError")
      [] OTHER -> ToolExecutionError(resp.message)

\* callTool without the isConnected() check
callToolOutcome_NoConnectedCheck(schemaName, params, resp) ==
    LET servers == schemas[schemaName]
        parsed == parseToolName(params.name)
        idx == getServer(servers, parsed.serverId)
    IN  IF parsed.serverId = <<>> \/ parsed.toolName = <<>>
        THEN [value |-> ErrorResult([msg |-> "invalidFormat",
                                     name |-> params.name]),
              sent |-> <<>>]
        ELSE IF idx = 0
        THEN [value |-> ErrorResult([msg |-> "notFound",
                                     serverId |-> parsed.serverId,
                                     schemaName |-> schemaName]),
              sent |-> <<>>]
        ELSE IF ~Reaches(servers[idx])
        THEN [value |-> ToolExecutionError("Request timeout: tools/call"),
              sent |-> <<>>]
        ELSE [value |-> Delegated(resp),
              sent |-> <<ToolCallRequest(servers[idx], parsed.toolName,
                                         params.arguments)>>]

\* callTool(schemaName, params) on a registered schema: the value it
\* returns and the requests that reach a backend. resp is what awaiting
\* server.callTool gives when the call is delegated
callToolOutcome(schemaName, params, resp) ==
    LET servers == schemas[schemaName]
        parsed == parseToolName(params.name)
        idx == getServer(servers, parsed.serverId)
    IN  IF parsed.serverId = <<>> \/ parsed.toolName = <<>>
        THEN [value |-> ErrorResult([msg |-> "invalidFormat",
                                     name |-> params.name]),
              sent |-> <<>>]
        ELSE IF idx = 0
        THEN [value |-> ErrorResult([msg |-> "notFound",
                                     serverId |-> parsed.serverId,
                                     schemaName |-> schemaName]),
              sent |-> <<>>]
        ELSE IF ~IsConnected(servers[idx])
        THEN [value |-> ErrorResult([msg |-> "notConnected",
                                     serverId |-> parsed.serverId]),
              sent |-> <<>>]
        ELSE IF ~Reaches(servers[idx])
        THEN [value |-> ToolExecutionError("Request timeout: tools/call"),
              sent |-> <<>>]
        ELSE [value |-> Delegated(resp),
              sent |-> <<ToolCallRequest(servers[idx], parsed.toolName,
                                         params.arguments)>>]

\* what a member answers to resources/read or prompts/get: a result with
\* contents (messages), a result without any, or an error
MemberAnswers == {"some", "empty", "raise"}

\* a loop that calls the members that are not connected as well
RECURSIVE TryMembers_NoSkip(_, _, _)
TryMembers_NoSkip(servers, answers, i) ==
    IF i > Len(servers) THEN [tried |-> <<>>, from |-> 0]
    ELSE IF Reaches(servers[i]) /\ answers[servers[i].id] = "some"
    THEN [tried |-> <<i>>, from |-> i]
    ELSE LET rest == TryMembers_NoSkip(servers, answers, i + 1)
         IN  [tried |-> <<i>> \o rest.tried, from |-> rest.from]

\* the loop of readResource and of getPrompt from member i on: the members
\* whose method is called, in order, and the member whose result is
\* returned (0 when the loop ends without return)
RECURSIVE TryMembers(_, _, _)
TryMembers(servers, answers, i) ==
    IF i > Len(servers) THEN [tried |-> <<>>, from |-> 0]
    ELSE IF ~IsConnected(servers[i]) THEN TryMembers(servers, answers, i + 1)
    ELSE IF Reaches(servers[i]) /\ answers[servers[i].id] = "some"
    THEN [tried |-> <<i>>, from |-> i]
    ELSE LET rest == TryMembers(servers, answers, i + 1)
         IN  [tried |-> <<i>> \o rest.tried, from |-> rest.from]

\* the requests of that loop that reach a backend
MemberRequests(servers, tried, method, params) ==
    LET reached == SelectSeq(tried, LAMBDA i : Reaches(servers[i]))
    IN  [k \in 1..Len(reached) |->
            [server |-> servers[reached[k]].id, method |-> method,
             params |-> params]]

\* what readResource (field "contents") or getPrompt (field "messages")
\* returns or throws; key is params.uri or params.name
FirstNonEmpty(op, schemaName, key, answers) ==
    IF ~hasSchema(schemaName) THEN SchemaNotFound(op, schemaName)
    ELSE LET servers == schemas[schemaName]
             loop == TryMembers(servers, answers, 1)
         IN  [op |-> op, schema |-> schemaName, threw |-> loop.from = 0,
              key |-> key, answers |-> answers, tried |-> loop.tried,
              value |-> IF loop.from = 0
                        THEN [msg |-> "notFound", key |-> key]
                        ELSE [msg |-> "answer",
                              server |-> servers[loop.from].id,
                              key |-> key]]

(***************************************************************************)
(* The operations of the registry as actions.                              *)
(***************************************************************************)
\* the servers of a schema right after addSchema built and connected them
AddedServers(cfg) == connectAll([i \in 1..Len(cfg) |-> NewServer(cfg[i])])

\* the tools/list probes answered during the handshakes of connectAll
RECURSIVE ConnectRequests(_)
ConnectRequests(servers) ==
    IF servers = <<>> THEN <<>>
    ELSE (IF Head(servers).status = "connected"
          THEN <<[server |-> Head(servers).id, method |-> "tools/list",
                  params |-> <<>>]>>
          ELSE <<>>) \o ConnectRequests(Tail(servers))

\* addSchema(schemaName, config), called once per key of config.schemas
addSchema(schemaName, enabled, cfg) ==
    /\ ~hasSchema(schemaName)
    /\ IF enabled
       THEN /\ schemas' = [n \in DOMAIN schemas \cup {schemaName} |->
                              IF n = schemaName THEN AddedServers(cfg)
                              ELSE schemas[n]]
            /\ sent' = ConnectRequests(AddedServers(cfg))
       ELSE /\ schemas' = schemas
            /\ sent' = <<>>
    /\ result' = Returned("addSchema", schemaName, [enabled |-> enabled])
    /\ UNCHANGED <<clientVars, connVars, hubVars, frontVars, procVars>>

\* removeSchema(schemaName): disconnectAll of the schema, then delete
removeSchema(schemaName) ==
    /\ schemas' = [n \in DOMAIN schemas \ {schemaName} |-> schemas[n]]
    /\ sent' = <<>>
    /\ result' = Returned("removeSchema", schemaName,
                          [removed |-> hasSchema(schemaName)])
    /\ UNCHANGED <<clientVars, connVars, hubVars, frontVars, procVars>>

\* MCPConnectionManager.disconnectAll()
disconnectAll ==
    /\ schemas' = <<>>
    /\ sent' = <<>>
    /\ result' = Returned("disconnectAll", "", [removed |-> schemas # <<>>])
    /\ UNCHANGED <<clientVars, connVars, hubVars, frontVars, procVars>>

\* what listTools(schemaName, cursor) returns or throws
listToolsResult(schemaName, cursor) ==
    IF ~hasSchema(schemaName) THEN SchemaNotFound("listTools", schemaName)
    ELSE [op |-> "listTools", schema |-> schemaName, threw |-> FALSE,
          cursor |-> cursor,
          value |-> Paginate(AllTools(schemas[schemaName]), cursor,
                             ToolsPageSize)]

\* what listResources(schemaName, cursor) returns or throws
listResourcesResult(schemaName, cursor) ==
    IF ~hasSchema(schemaName)
    THEN SchemaNotFound("listResources", schemaName)
    ELSE [op |-> "listResources", schema |-> schemaName, threw |-> FALSE,
          cursor |-> cursor,
          value |-> Paginate(AllResources(schemas[schemaName]), cursor,
                             ResourcesPageSize)]

listTools(schemaName, cursor) ==
    /\ result' = listToolsResult(schemaName, cursor)
    /\ sent' = IF hasSchema(schemaName)
               THEN ListRequests(schemas[schemaName], "tools/list")
               ELSE <<>>
    /\ UNCHANGED <<schemas, clientVars, connVars, hubVars, frontVars, procVars>>

listResources(schemaName, cursor) ==
    /\ result' = listResourcesResult(schemaName, cursor)
    /\ sent' = IF hasSchema(schemaName)
               THEN ListRequests(schemas[schemaName], "resources/list")
               ELSE <<>>
    /\ UNCHANGED <<schemas, clientVars, connVars, hubVars, frontVars, procVars>>

\* callTool(schemaName, params)
callTool(schemaName, params, resp) ==
    /\ result' = IF ~hasSchema(schemaName)
                 THEN SchemaNotFound("callTool", schemaName)
                 ELSE [op |-> "callTool", schema |-> schemaName,
                       threw |-> FALSE, params |-> params, resp |-> resp,
                       value |-> callToolOutcome(schemaName, params,
                                                 resp).value]
    /\ sent' = IF hasSchema(schemaName)
               THEN callToolOutcome(schemaName, params, resp).sent
               ELSE <<>>
    /\ UNCHANGED <<schemas, clientVars, connVars, hubVars, frontVars, procVars>>

\* readResource(schemaName, {uri})
readResource(schemaName, uri, answers) ==
    /\ result' = FirstNonEmpty("readResource", schemaName, uri, answers)
    /\ sent' = IF hasSchema(schemaName)
               THEN MemberRequests(schemas[schemaName], result'.tried,
                                   "resources/read", uri)
               ELSE <<>>
    /\ UNCHANGED <<schemas, clientVars, connVars, hubVars, frontVars, procVars>>

\* getPrompt(schemaName, {name})
getPrompt(schemaName, name, answers) ==
    /\ result' = FirstNonEmpty("getPrompt", schemaName, name, answers)
    /\ sent' = IF hasSchema(schemaName)
               THEN MemberRequests(schemas[schemaName], result'.tried,
                                   "prompts/get", name)
               ELSE <<>>
    /\ UNCHANGED <<schemas, clientVars, connVars, hubVars, frontVars, procVars>>

\* the URIs and the prompt names callers pass
Uris == {"file:///x", "file:///y"}
PromptNames == {"p", "q"}

\* the tool names callers pass: malformed ones, an unknown server, and
\* every name listTools can return
ToolNameInputs ==
    {Tool_r, <<Dash>> \o Tool_r, Id_a \o <<Dash>>,
     PrefixedName(Id_ghost, Tool_r)}
    \cup {PrefixedName(i, t) : i \in ServerIds, t \in ToolNames}

\* "MA==" (offset 0), "abc" followed by "!" (not base64), "YWJj" (base64 of
\* "abc"), "LTE=" (base64 of "-1")
CursorInputs ==
    {<<>>, btoa(toString(0)), <<97, 98, 99, 33>>, btoa(<<97, 98, 99>>),
     btoa(toString(-1))}

ClientIdle == pages = <<>> /\ walk = "idle"

InitRegistry ==
    /\ schemas = <<>>
    /\ sent = <<>>
    /\ result = Returned("new", "", <<>>)
    /\ ClientIdle
    /\ ConnIdle
    /\ HubIdle
    /\ FrontIdle
    /\ ProcIdle

NextRegistry ==
    \/ \E n \in SchemaNames, e \in BOOLEAN, cfg \in ServerConfigs :
           addSchema(n, e, cfg)
    \/ \E n \in SchemaNames : removeSchema(n)
    \/ disconnectAll
    \/ \E n \in CallerSchemas, c \in CursorInputs : listTools(n, c)
    \/ \E n \in CallerSchemas, c \in CursorInputs : listResources(n, c)
    \/ \E n \in CallerSchemas, name \in ToolNameInputs, a \in Arguments,
          resp \in ToolResponses :
           callTool(n, [name |-> name, arguments |-> a], resp)
    \/ \E n \in CallerSchemas, uri \in Uris,
          answers \in [ServerIds -> MemberAnswers] :
           readResource(n, uri, answers)
    \/ \E n \in CallerSchemas, name \in PromptNames,
          answers \in [ServerIds -> MemberAnswers] :
           getPrompt(n, name, answers)

vars ==
    <<schemas, sent, result, pages, walk, conn, ev, intent, hub, delivery,
      front, pipe, logLevel>>

SpecRegistry == InitRegistry /\ [][NextRegistry]_vars

(***************************************************************************)
(* The paging client: one schema "default" with one connected server that  *)
(* exposes n tools and n resources; the client calls listTools or          *)
(* listResources without cursor and then with each returned nextCursor.    *)
(***************************************************************************)
\* "t1", "t2", ...: the tools and resources of the backend
ItemName(i) == <<116>> \o toString(i)

PagingEntry(n) ==
    [id |-> Id_a, type |-> "stdio",
     backend |-> [mode |-> "ok",
                  tools |-> [i \in 1..n |-> ItemName(i)],
                  resources |-> [i \in 1..n |-> ItemName(i)]]]

InitPaging ==
    /\ \E n \in 0..MaxItems :
           schemas = [s \in {"default"} |-> AddedServers(<<PagingEntry(n)>>)]
    /\ sent = <<>>
    /\ result = Returned("addSchema", "default", [enabled |-> TRUE])
    /\ ClientIdle
    /\ ConnIdle
    /\ HubIdle
    /\ FrontIdle
    /\ ProcIdle

\* the client's call of listTools with the cursor it holds
ClientListTools(cursor, from, during, done) ==
    /\ walk = from
    /\ result' = listToolsResult("default", cursor)
    /\ sent' = ListRequests(schemas["default"], "tools/list")
    /\ pages' = Append(pages, result'.value.items)
    /\ walk' = IF result'.value.nextCursor = <<>> THEN done ELSE during
    /\ UNCHANGED <<schemas, connVars, hubVars, frontVars, procVars>>

\* the client's call of listResources with the cursor it holds
ClientListResources(cursor, from, during, done) ==
    /\ walk = from
    /\ result' = listResourcesResult("default", cursor)
    /\ sent' = ListRequests(schemas["default"], "resources/list")
    /\ pages' = Append(pages, result'.value.items)
    /\ walk' = IF result'.value.nextCursor = <<>> THEN done ELSE during
    /\ UNCHANGED <<schemas, connVars, hubVars, frontVars, procVars>>

FirstToolsPage == ClientListTools(<<>>, "idle", "tools", "toolsDone")
NextToolsPage ==
    ClientListTools(result.value.nextCursor, "tools", "tools", "toolsDone")
FirstResourcesPage ==
    ClientListResources(<<>>, "idle", "resources", "resourcesDone")
NextResourcesPage ==
    ClientListResources(result.value.nextCursor, "resources", "resources",
                        "resourcesDone")

\* a caller passes a cursor of its own making
ProbeTools(c) == ClientListTools(c, "idle", "toolsProbe", "toolsProbe")
ProbeResources(c) ==
    ClientListResources(c, "idle", "resourcesProbe", "resourcesProbe")

NextPaging ==
    \/ FirstToolsPage
    \/ NextToolsPage
    \/ FirstResourcesPage
    \/ NextResourcesPage
    \/ \E c \in CursorInputs : ProbeTools(c)
    \/ \E c \in CursorInputs : ProbeResources(c)

SpecPaging == InitPaging /\ [][NextPaging]_vars

(***************************************************************************)
(* One connection (IMCPServer) in detail.  conn is the object: its status  *)
(* snapshot, the transport objects it created (child processes or          *)
(* EventSources, each with the connect() call that created it), the        *)
(* requests it issued and its armed timers.  A promise's continuation runs *)
(* in the step that settles the promise, as microtasks do; rejected holds   *)
(* the connect attempts whose awaited promise disconnect() of a Stream     *)
(* Connection has rejected and whose catch blocks run once disconnect()    *)
(* has returned.                                                           *)
(***************************************************************************)
\* the exit code of a subprocess ended by a signal (code === null)
NullCode == -1
\* the number of tools a backend reports in its tools/list result
ToolCounts == {2}
\* config.maxRetries of a Stream Connection
MaxRetriesValues == {1, 2}
\* the retry limit when config.maxRetries is falsy
DefaultMaxRetries == 5

\* the fields the three constructors initialise
NewConnection(kind, restart, maxRetries) ==
    [kind |-> kind,
     restart |-> restart,
     maxRetries |-> maxRetries,
     status |-> "disconnected",
     toolCount |-> 0,
     error |-> FALSE,
     objs |-> <<>>,
     current |-> 0,
     requestId |-> 1,
     pendingRequests |-> <<>>,
     timeouts |-> {},
     unsettled |-> {},
     timedOut |-> {},
     timers |-> 0,
     messageEndpoint |-> FALSE,
     reconnectAttempts |-> 0,
     rejected |-> {},
     statusChangeCallback |-> 0,
     registered |-> 0,
     fired |-> <<>>]

\* constructor of StdioMCPServer; restart is config.restart
NewStdio(restart) == NewConnection("stdio", restart, 0)
\* constructor of SSEMCPServer
NewSSE(maxRetries) == NewConnection("sse", FALSE, maxRetries)
\* constructor of HTTPMCPServer
NewHTTP == NewConnection("http", FALSE, 0)

\* getStatus(): the snapshot of the status object
getStatus(c) ==
    [status |-> c.status, toolCount |-> c.toolCount, error |-> c.error]

\* the callback addServer registers on every connection it creates
LoggingCallback == 1
\* the callbacks handed to onStatusChange
StatusCallbacks == {LoggingCallback, 2}

\* onStatusChange(callback): one slot
onStatusChange(c, callback) == [c EXCEPT !.statusChangeCallback = callback]

\* a call of onStatusChange and its history: registered is the callback of
\* the latest call
StatusCallbackSet(c, callback) ==
    [onStatusChange(c, callback) EXCEPT !.registered = callback]

\* SchemaConnections.addServer: the connection it constructed, with the
\* logging callback registered
AddedServer(c) == StatusCallbackSet(c, LoggingCallback)

\* an updateStatus that calls the callback whether or not the value changed
updateStatus_Always(c, status, error) ==
    [c EXCEPT !.status = status,
              !.error = error # "",
              !.fired = IF c.statusChangeCallback # 0
                        THEN Append(@, [callback |-> c.statusChangeCallback,
                                        status |-> status])
                        ELSE @]

\* updateStatus(status, error): the registered callback is called with the
\* new status when the value changes; fired is the record of the calls
updateStatus(c, status, error) ==
    [c EXCEPT !.status = status,
              !.error = error # "",
              !.fired = IF c.status # status /\ c.statusChangeCallback # 0
                        THEN Append(@, [callback |-> c.statusChangeCallback,
                                        status |-> status])
                        ELSE @]

\* a connect() without its first line
AlreadyConnected_Never(c) == FALSE

\* the first line of connect(): already connected
AlreadyConnected(c) == c.status = "connected"

\* the first line of disconnect(): already disconnected
AlreadyDisconnected(c) == c.status = "disconnected"

\* the entry sendRequest puts into pendingRequests with its timer: who
\* awaits the promise (0 = a caller, k = the connect attempt of transport
\* object k) and whether the transport carries the request to the backend
NewRequest(method, owner, delivered) ==
    [method |-> method, owner |-> owner, delivered |-> delivered]

\* this.requestId++, new Promise, setTimeout and pendingRequests.set(id,
\* ...): timeouts holds the ids whose deadline timer is armed, unsettled
\* the ids whose promise is neither resolved nor rejected
Register(c, request) ==
    [c EXCEPT !.requestId = @ + 1,
              !.timeouts = @ \cup {c.requestId},
              !.unsettled = @ \cup {c.requestId},
              !.pendingRequests =
                  [i \in DOMAIN @ \cup {c.requestId} |->
                      IF i = c.requestId THEN request ELSE @[i]]]

\* clearTimeout(request.timeout), or the timer of request id has fired
clearTimeout(c, id) == [c EXCEPT !.timeouts = @ \ {id}]

\* resolve or reject of request id is called with outcome: a promise
\* settles once, a call on a settled promise has no effect; timedOut keeps
\* the ids whose promise the timeout rejected
Settled(c, id, outcome) ==
    [c EXCEPT !.unsettled = @ \ {id},
              !.timedOut = IF outcome = "timeout" /\ id \in c.unsettled
                           THEN @ \cup {id} ELSE @]

\* a settlement that deletes the entry and leaves its deadline timer armed
Settle_KeepsTimer(c, id, outcome) ==
    Settled([c EXCEPT !.pendingRequests =
                          [i \in DOMAIN @ \ {id} |-> @[i]]],
            id, outcome)

\* the timer of request id is cleared (or has fired), pendingRequests
\* .delete(id), and the promise settles with outcome
Settle(c, id, outcome) ==
    Settled(clearTimeout([c EXCEPT !.pendingRequests =
                                       [i \in DOMAIN @ \ {id} |-> @[i]]],
                         id),
            id, outcome)

\* the loop of disconnect() over pendingRequests, then clear()
RECURSIVE RejectAll(_, _)
RejectAll(c, ids) ==
    IF ids = {} THEN c
    ELSE LET id == CHOOSE x \in ids : \A y \in ids : x <= y
         IN  RejectAll(Settled(clearTimeout(c, id), id, "disconnected"),
                       ids \ {id})

RejectPending(c) ==
    [RejectAll(c, DOMAIN c.pendingRequests) EXCEPT !.pendingRequests = <<>>]

\* the connect attempts that await a request in pendingRequests
PendingOwners(c) ==
    {c.pendingRequests[i].owner : i \in DOMAIN c.pendingRequests} \ {0}

(***************************************************************************)
(* StdioMCPServer.                                                         *)
(***************************************************************************)
\* a ChildProcess right after spawn(); state "failed" is a spawn that will
\* emit 'error' (ENOENT), "gone" a process that has emitted its last
\* event; attempt is the position of the connect() call that spawned it,
\* awaited says a disconnect() call awaits its exit
NewProcess(ok) ==
    [state |-> IF ok THEN "running" ELSE "failed",
     killed |-> FALSE,
     attempt |-> "grace",
     awaited |-> FALSE]

\* the guard at the head of StdioMCPServer.sendRequest
StdioNotRunning(c) == c.current = 0 \/ c.objs[c.current].killed

\* StdioMCPServer.sendRequest(method) on behalf of owner (0 = a caller,
\* p = the connect attempt that spawned process p): the request is written
\* to the stdin of the current process
StdioSendRequest(c, owner, method) ==
    IF StdioNotRunning(c) THEN [c |-> c, rejected |-> TRUE]
    ELSE [c |-> Register(c, NewRequest(method, owner,
                                c.objs[c.current].state = "running")),
          rejected |-> FALSE]

\* the catch block of connect(): status error, the promise rejects
StdioConnectFailed(c, p, why) ==
    updateStatus([c EXCEPT !.objs[p].attempt = "done"], "error", why)

\* what runs when the promise a connect attempt awaits settles: the rest
\* of waitForReady and of connect
StdioContinue(c, p, ok, n, why) ==
    IF ~ok THEN StdioConnectFailed(c, p, why)
    ELSE IF c.objs[p].attempt = "init"
    THEN LET r == StdioSendRequest(c, p, "tools/list")
         IN  IF r.rejected THEN StdioConnectFailed(c, p, "not running")
             ELSE [r.c EXCEPT !.objs[p].attempt = "list"]
    ELSE updateStatus([c EXCEPT !.toolCount = n,
                                !.objs[p].attempt = "done"],
                      "connected", "")

\* StdioMCPServer.connect() up to its first await: spawn a subprocess,
\* make it the current one and attach the listeners
Stdio_connect(c, ok) ==
    IF AlreadyConnected(c) THEN c
    ELSE [c EXCEPT !.objs = Append(@, NewProcess(ok)),
                   !.current = Len(c.objs) + 1]

\* waitForReady after its one-second wait: the initialize request
Stdio_waitForReady(c, p) ==
    LET r == StdioSendRequest(c, p, "initialize")
    IN  IF r.rejected THEN StdioConnectFailed(c, p, "not running")
        ELSE [r.c EXCEPT !.objs[p].attempt = "init"]

\* this.process.kill(signal): the signal is sent to a live process only,
\* and only then is the killed flag set
Kill(c, signal) ==
    IF c.objs[c.current].state = "running"
    THEN [c EXCEPT !.objs[c.current].killed = TRUE]
    ELSE c

\* the connect attempts in owners take their catch block one after another
RECURSIVE StdioFailAll(_, _, _)
StdioFailAll(c, owners, why) ==
    IF owners = {} THEN c
    ELSE LET p == CHOOSE x \in owners : \A y \in owners : x <= y
         IN  StdioFailAll(StdioConnectFailed(c, p, why), owners \ {p}, why)

\* StdioMCPServer.disconnect() up to its await of the 'exit' event; the
\* continuations of the rejected promises run when it yields
Stdio_disconnect(c) ==
    IF AlreadyDisconnected(c) THEN c
    ELSE LET c1 == RejectPending(c)
             c2 == IF c.current = 0 THEN updateStatus(c1, "disconnected", "")
                   ELSE [Kill(c1, "SIGTERM") EXCEPT
                            !.objs[c.current].awaited = TRUE]
         IN  StdioFailAll(c2, PendingOwners(c), "Server disconnected")

\* the rest of disconnect() once the awaited 'exit' event has come
Stdio_disconnectRest(c) ==
    updateStatus(IF c.current # 0 /\ ~c.objs[c.current].killed
                 THEN Kill(c, "SIGKILL") ELSE c,
                 "disconnected", "")

\* an exit handler that ignores the exit code
RestartWanted_AnyCode(c, code) == c.restart

\* whether the exit handler arms the restart timer
RestartWanted(c, code) == c.restart /\ code # 0

\* the 'exit' listener of process p, then the disconnect() calls that
\* awaited this event (their rest is idempotent)
Stdio_onExit(c, p, code) ==
    LET c1 == updateStatus([c EXCEPT !.objs[p].state = "gone"],
                           "disconnected", "")
        c2 == IF RestartWanted(c1, code)
              THEN [c1 EXCEPT !.timers = @ + 1] ELSE c1
    IN  IF c.objs[p].awaited
        THEN Stdio_disconnectRest([c2 EXCEPT !.objs[p].awaited = FALSE])
        ELSE c2

\* the 'error' listener of process p
Stdio_onError(c, p) ==
    updateStatus([c EXCEPT !.objs[p].state = "gone"], "error",
                 "spawn error")

\* the exit codes a subprocess can end with: null when a signal ends it
ExitCodes == {NullCode, 0, 1}

(***************************************************************************)
(* SSEMCPServer.                                                           *)
(***************************************************************************)
\* an EventSource right after its construction in createEventSource;
\* attempt is the position of the connect() call that created it
NewEventSource == [state |-> "connecting", attempt |-> "opening"]

\* SSEMCPServer.isConnected()
SSE_isConnected(c) == c.current # 0 /\ c.objs[c.current].state = "open"

\* this.config.maxRetries || 5
RetryLimit(c) ==
    IF c.maxRetries = 0 THEN DefaultMaxRetries ELSE c.maxRetries

\* a test that lets every failure schedule a reconnect
MayReconnect_Always(c) == TRUE

\* the test that precedes both calls of scheduleReconnect
MayReconnect(c) == c.reconnectAttempts < RetryLimit(c)

\* scheduleReconnect(): the timer still armed is cleared, one more attempt
\* is counted and a new timer is armed
scheduleReconnect(c) ==
    [c EXCEPT !.timers = (IF @ > 0 THEN 0 ELSE @) + 1,
              !.reconnectAttempts = @ + 1]

\* the catch block of connect()
SSEConnectFailed(c, k, why) ==
    LET c1 == updateStatus([c EXCEPT !.objs[k].attempt = "done"],
                           "error", why)
    IN  IF MayReconnect(c1) THEN scheduleReconnect(c1) ELSE c1

\* SSEMCPServer.sendRequest(method): the request is POSTed to the message
\* endpoint; without an endpoint sendHttpRequest throws and the promise
\* rejects at once; posted says whether the POST will succeed
SSESendRequest(c, owner, method, posted) ==
    IF ~SSE_isConnected(c) THEN [c |-> c, rejected |-> TRUE]
    ELSE IF ~c.messageEndpoint
    THEN [c |-> Settle(Register(c, NewRequest(method, owner, FALSE)),
                       c.requestId, "sendFailed"),
          rejected |-> TRUE]
    ELSE [c |-> Register(c, NewRequest(method, owner, posted)),
          rejected |-> FALSE]

\* waitForReady once the message endpoint is known: the initialize request
SSE_waitForReady(c, k, posted) ==
    LET r == SSESendRequest(c, k, "initialize", posted)
    IN  IF r.rejected THEN SSEConnectFailed(r.c, k, "not connected")
        ELSE [r.c EXCEPT !.objs[k].attempt = "init"]

\* waitForReady once the POST of the initialized notification is settled
SSE_afterNotification(c, k, ok, posted) ==
    IF ~ok THEN SSEConnectFailed(c, k, "HTTP error")
    ELSE LET r == SSESendRequest(c, k, "tools/list", posted)
         IN  IF r.rejected THEN SSEConnectFailed(r.c, k, "not connected")
             ELSE [r.c EXCEPT !.objs[k].attempt = "list1"]

\* what runs when the promise a connect attempt awaits settles: the rest
\* of waitForReady and of connect
SSEContinue(c, k, ok, n, why, posted) ==
    IF ~ok THEN SSEConnectFailed(c, k, why)
    ELSE IF c.objs[k].attempt = "init"
    THEN IF ~SSE_isConnected(c) \/ ~c.messageEndpoint
         THEN SSEConnectFailed(c, k, "not connected")
         ELSE [c EXCEPT !.objs[k].attempt = "notify"]
    ELSE IF c.objs[k].attempt = "list1"
    THEN LET r == SSESendRequest(c, k, "tools/list", posted)
         IN  IF r.rejected THEN SSEConnectFailed(r.c, k, "not connected")
             ELSE [r.c EXCEPT !.objs[k].attempt = "list2"]
    ELSE [updateStatus([c EXCEPT !.toolCount = n,
                                 !.objs[k].attempt = "done"],
                       "connected", "")
          EXCEPT !.reconnectAttempts = 0]

\* SSEMCPServer.connect() up to its first await: a new EventSource
\* becomes the current one
SSE_connect(c) ==
    IF AlreadyConnected(c) THEN c
    ELSE [c EXCEPT !.objs = Append(@, NewEventSource),
                   !.current = Len(c.objs) + 1]

\* onopen of EventSource k: createEventSource resolves and waitForReady
\* starts to poll for the message endpoint
SSE_onOpen(c, k, posted) ==
    LET c1 == [c EXCEPT !.objs[k].state = "open"]
    IN  IF c.objs[k].attempt # "opening" THEN c1
        ELSE IF c.messageEndpoint THEN SSE_waitForReady(c1, k, posted)
        ELSE [c1 EXCEPT !.objs[k].attempt = "endpoint"]

\* the 'endpoint' event
SSE_onEndpoint(c) == [c EXCEPT !.messageEndpoint = TRUE]

\* onerror of EventSource k; fatal says the EventSource ends CLOSED rather
\* than reconnecting by itself
SSE_onError(c, k, fatal) ==
    LET c1 == [c EXCEPT !.objs[k].state =
                            IF fatal THEN "closed" ELSE "connecting"]
        c2 == IF c1.current # 0 /\ c1.objs[c1.current].state = "closed"
              THEN LET u == updateStatus(c1, "error", "SSE connection closed")
                   IN  IF MayReconnect(u) THEN scheduleReconnect(u) ELSE u
              ELSE c1
    IN  IF c2.status # "connected" /\ c2.objs[k].attempt = "opening"
        THEN SSEConnectFailed(c2, k, "Failed to establish SSE connection")
        ELSE c2

\* the connection timeout armed by createEventSource for EventSource k,
\* while the promise of createEventSource is unsettled
SSE_onOpenTimeout(c, k) ==
    IF c.current = 0 \/ c.objs[c.current].state # "open"
    THEN SSEConnectFailed(c, k, "SSE connection timeout")
    ELSE c

\* the connect attempts in owners take their catch block one after another
RECURSIVE SSEFailAll(_, _, _)
SSEFailAll(c, owners, why) ==
    IF owners = {} THEN c
    ELSE LET k == CHOOSE x \in owners : \A y \in owners : x <= y
         IN  SSEFailAll(SSEConnectFailed(c, k, why), owners \ {k}, why)

\* a disconnect() that leaves the reconnect timer armed
SSE_disconnect_KeepsTimer(c) ==
    IF AlreadyDisconnected(c) THEN c
    ELSE LET c1 == RejectPending(c)
             c2 == IF c.current # 0
                   THEN [c1 EXCEPT !.objs[c.current].state = "closed",
                                   !.current = 0]
                   ELSE c1
             c3 == updateStatus([c2 EXCEPT !.messageEndpoint = FALSE],
                                "disconnected", "")
         IN  [c3 EXCEPT !.rejected = PendingOwners(c)]

\* SSEMCPServer.disconnect(): it has no await, so it runs to its end
\* before the continuations of the promises it rejects
SSE_disconnect(c) ==
    IF AlreadyDisconnected(c) THEN c
    ELSE LET c1 == [RejectPending(c) EXCEPT !.timers = 0]
             c2 == IF c.current # 0
                   THEN [c1 EXCEPT !.objs[c.current].state = "closed",
                                   !.current = 0]
                   ELSE c1
             c3 == updateStatus([c2 EXCEPT !.messageEndpoint = FALSE],
                                "disconnected", "")
         IN  [c3 EXCEPT !.rejected = PendingOwners(c)]

\* the connect attempts whose request disconnect() rejected: waitForReady
\* rethrows and connect() takes its catch block
SSE_afterDisconnect(c) ==
    SSEFailAll([c EXCEPT !.rejected = {}], c.rejected, "Server disconnected")

(***************************************************************************)
(* HTTPMCPServer.                                                          *)
(***************************************************************************)
\* HTTPMCPServer.sendRequest(method): a fetch with an abort timer
HTTPSendRequest(c, owner, method, posted) ==
    IF c.status # "connected" THEN [c |-> c, rejected |-> TRUE]
    ELSE [c |-> Register(c, NewRequest(method, owner, posted)),
          rejected |-> FALSE]

\* the catch block of connect()
HTTPConnectFailed(c, why) == updateStatus(c, "error", why)

\* HTTPMCPServer.connect() up to its first await: testConnection
HTTP_connect(c, posted) ==
    IF AlreadyConnected(c) THEN c
    ELSE LET k == Len(c.objs) + 1
             r == HTTPSendRequest(c, k, "tools/list", posted)
         IN  IF r.rejected
             THEN HTTPConnectFailed(c, "Connection test failed")
             ELSE [r.c EXCEPT !.objs = Append(@, [state |-> "none",
                                                  attempt |-> "test"])]

\* the rest of connect() when the promise it awaits settles
HTTPContinue(c, k, ok, n, why, posted) ==
    IF ~ok
    THEN HTTPConnectFailed([c EXCEPT !.objs[k].attempt = "done"], why)
    ELSE IF c.objs[k].attempt = "test"
    THEN LET r == HTTPSendRequest(c, k, "tools/list", posted)
         IN  IF r.rejected
             THEN HTTPConnectFailed([c EXCEPT !.objs[k].attempt = "done"],
                                    "not connected")
             ELSE [r.c EXCEPT !.objs[k].attempt = "list"]
    ELSE updateStatus([c EXCEPT !.toolCount = n,
                                !.objs[k].attempt = "done"],
                      "connected", "")

\* HTTPMCPServer.disconnect()
HTTP_disconnect(c) ==
    IF AlreadyDisconnected(c) THEN c
    ELSE updateStatus(c, "disconnected", "")

(***************************************************************************)
(* The three kinds behind the IMCPServer interface.                        *)
(***************************************************************************)
\* sendRequest of the connection's class
SendRequest(c, owner, method, posted) ==
    CASE c.kind = "stdio" -> StdioSendRequest(c, owner, method)
      [] c.kind = "sse" -> SSESendRequest(c, owner, method, posted)
      [] OTHER -> HTTPSendRequest(c, owner, method, posted)

\* what runs when the promise of a request settles: nothing more for a
\* caller (owner 0); for a connect attempt the rest of connect()
Continue(c, owner, ok, n, why, posted) ==
    IF owner = 0 THEN c
    ELSE CASE c.kind = "stdio" -> StdioContinue(c, owner, ok, n, why)
           [] c.kind = "sse" -> SSEContinue(c, owner, ok, n, why, posted)
           [] OTHER -> HTTPContinue(c, owner, ok, n, why, posted)

\* a handleResponse that matches by arrival order: the oldest entry of the
\* map is settled, whatever id the response carries
handleResponse_ArrivalOrder(c, id, isError, n, posted) ==
    IF id \notin DOMAIN c.pendingRequests THEN c
    ELSE LET first == CHOOSE x \in DOMAIN c.pendingRequests :
                          \A y \in DOMAIN c.pendingRequests : x <= y
         IN  Continue(Settle(c, first,
                             IF isError THEN "error" ELSE "resolved"),
                      c.pendingRequests[first].owner, ~isError, n,
                      "backend error", posted)

\* a handleResponse that treats a response to an unknown request as fatal
handleResponse_UnknownFatal(c, id, isError, n, posted) ==
    IF id \notin DOMAIN c.pendingRequests
    THEN updateStatus(c, "error", "unknown request")
    ELSE Continue(Settle(c, id, IF isError THEN "error" ELSE "resolved"),
                  c.pendingRequests[id].owner, ~isError, n, "backend error",
                  posted)

\* handleResponse(response) for a response that carries id
handleResponse(c, id, isError, n, posted) ==
    IF id \notin DOMAIN c.pendingRequests THEN c
    ELSE Continue(Settle(c, id, IF isError THEN "error" ELSE "resolved"),
                  c.pendingRequests[id].owner, ~isError, n, "backend error",
                  posted)

\* a timeout callback that rejects and leaves the entry in the map
RequestTimeout_KeepsEntry(c, id, posted) ==
    Continue(Settled(clearTimeout(c, id), id, "timeout"),
             c.pendingRequests[id].owner, FALSE, 0, "Request timeout",
             posted)

\* the setTimeout callback of sendRequest
RequestTimeout(c, id, posted) ==
    Continue(Settle(c, id, "timeout"), c.pendingRequests[id].owner, FALSE, 0,
             "Request timeout", posted)

\* the catch handler of sendHttpRequest(request) in sendRequest
PostRejected(c, id, posted) ==
    Continue(Settle(c, id, "sendFailed"), c.pendingRequests[id].owner,
             FALSE, 0, "HTTP error", posted)

\* connect() of the connection's class
connect(c, ok) ==
    CASE c.kind = "stdio" -> Stdio_connect(c, ok)
      [] c.kind = "sse" -> SSE_connect(c)
      [] OTHER -> HTTP_connect(c, ok)

\* disconnect() of the connection's class
disconnect(c) ==
    CASE c.kind = "stdio" -> Stdio_disconnect(c)
      [] c.kind = "sse" -> SSE_disconnect(c)
      [] OTHER -> HTTP_disconnect(c)

\* the timer that calls connect() has fired: a Process Connection holds
\* one timer per exit, a Stream Connection one slot
TimerFired(c) ==
    [c EXCEPT !.timers = IF c.kind = "sse" THEN 0 ELSE @ - 1]

(***************************************************************************)
(* The steps of a connection.                                              *)
(***************************************************************************)
WithinBounds(c) ==
    c.requestId <= MaxRequests + 1 /\ Len(c.objs) <= MaxSpawns

\* the request ids issued so far
Issued == 1..(conn.requestId - 1)

\* the ids a response of the backend may carry: those issued so far and one
\* the connection never issued
ResponseIds == 1..conn.requestId

\* isConnected() of the connection's class
isConnected(c) ==
    CASE c.kind = "stdio" ->
             c.status = "connected" /\ c.current # 0
                 /\ ~c.objs[c.current].killed
      [] c.kind = "sse" -> SSE_isConnected(c)
      [] OTHER -> c.status = "connected"

\* the outcomes of a POST or a write the backend may or may not receive
Posted == IF conn.kind = "stdio" THEN {TRUE} ELSE BOOLEAN

\* the connection as a handler finds it: no callback fired yet
Begin == [conn EXCEPT !.fired = <<>>]

\* the event of a lifecycle call records the status value the call found
\* and the event of a request or of an exit its id or its code
Event(kind, by, arg) ==
    [kind |-> kind, by |-> by,
     before |-> IF kind \in {"connect", "disconnect"} THEN conn.status
                ELSE "any",
     arg |-> arg]

\* the level of the logger after a handler: waitForReady of a Stream
\* Connection, which starts when createEventSource resolves, begins with
\* logger.setLevel("debug")
LevelAfter(c, d, kind) ==
    IF /\ c.kind = "sse"
       /\ kind = "open"
       /\ \E k \in DOMAIN c.objs : /\ c.objs[k].attempt = "opening"
                                  /\ d.objs[k].attempt # "opening"
    THEN "debug"
    ELSE logLevel

\* a handler takes the connection to next; the continuations of rejected
\* promises run before any other handler
Handler(next, kind, by, arg) ==
    /\ conn.rejected = {} \/ kind = "rejections"
    /\ WithinBounds(next)
    /\ conn' = next
    /\ ev' = Event(kind, by, arg)
    /\ logLevel' = LevelAfter(conn, next, kind)
    /\ UNCHANGED <<regVars, clientVars, hubVars, frontVars, pipe>>

\* a caller invokes connect()
CallerConnect ==
    /\ \E ok \in BOOLEAN :
           Handler(connect(Begin, ok), "connect", "caller", 0)
    /\ intent' = "connect"

\* a timer armed by an exit handler or by scheduleReconnect fires
TimerConnect ==
    /\ conn.timers > 0
    /\ \E ok \in BOOLEAN :
           Handler(connect(TimerFired(Begin), ok), "connect", "timer", 0)
    /\ UNCHANGED intent

\* a caller invokes disconnect()
CallerDisconnect ==
    /\ Handler(disconnect(Begin), "disconnect", "caller", 0)
    /\ intent' = "disconnect"

\* the registry invokes listTools, callTool, ... on a connection whose
\* isConnected() is true: sendRequest
CallerRequest ==
    /\ isConnected(conn)
    /\ \E posted \in Posted :
           LET r == SendRequest(Begin, 0, "tools/call", posted)
           IN  Handler(r.c, IF r.rejected THEN "requestRejected"
                            ELSE "request", "caller", conn.requestId)
    /\ UNCHANGED intent

\* the backend answers request id with a result or an error; a Stream
\* Connection receives it on an open EventSource
Respond(id, isError, n) ==
    /\ id \in DOMAIN conn.pendingRequests => conn.pendingRequests[id].delivered
    /\ conn.kind = "sse" =>
           \E k \in DOMAIN conn.objs : conn.objs[k].state = "open"
    /\ \E posted \in Posted :
           Handler(handleResponse(Begin, id, isError, n, posted),
                   IF id \in DOMAIN conn.pendingRequests THEN "response"
                   ELSE "lateResponse",
                   "backend", id)
    /\ UNCHANGED intent

\* the deadline of request id passes
Timeout(id) ==
    /\ id \in DOMAIN conn.pendingRequests
    /\ \E posted \in Posted :
           Handler(RequestTimeout(Begin, id, posted), "timeout", "timer", id)
    /\ UNCHANGED intent

\* Process Connection: the one-second wait of the connect attempt on
\* process p is over
GraceElapsed(p) ==
    /\ conn.kind = "stdio"
    /\ conn.objs[p].attempt = "grace"
    /\ Handler(Stdio_waitForReady(Begin, p), "ready", "timer", 0)
    /\ UNCHANGED intent

\* Process Connection: subprocess p ends
ProcessExit(p, code) ==
    /\ conn.kind = "stdio"
    /\ conn.objs[p].state = "running"
    /\ Handler(Stdio_onExit(Begin, p, code), "exit", "backend", code)
    /\ UNCHANGED intent

\* Process Connection: the spawn of process p is reported as failed
SpawnError(p) ==
    /\ conn.kind = "stdio"
    /\ conn.objs[p].state = "failed"
    /\ Handler(Stdio_onError(Begin, p), "error", "backend", 0)
    /\ UNCHANGED intent

\* Stream Connection: EventSource k opens
EventSourceOpen(k) ==
    /\ conn.kind = "sse"
    /\ conn.objs[k].state = "connecting"
    /\ \E posted \in Posted :
           Handler(SSE_onOpen(Begin, k, posted), "open", "backend", 0)
    /\ UNCHANGED intent

\* Stream Connection: EventSource k reports an error
EventSourceError(k, fatal) ==
    /\ conn.kind = "sse"
    /\ conn.objs[k].state # "closed"
    /\ Handler(SSE_onError(Begin, k, fatal), "error", "backend", 0)
    /\ UNCHANGED intent

\* Stream Connection: the connection timeout of EventSource k passes
OpenTimeout(k) ==
    /\ conn.kind = "sse"
    /\ conn.objs[k].attempt = "opening"
    /\ Handler(SSE_onOpenTimeout(Begin, k), "openTimeout", "timer", 0)
    /\ UNCHANGED intent

\* Stream Connection: the backend names its message endpoint on k
EndpointEvent(k) ==
    /\ conn.kind = "sse"
    /\ conn.objs[k].state = "open"
    /\ Handler(SSE_onEndpoint(Begin), "endpoint", "backend", 0)
    /\ UNCHANGED intent

\* Stream Connection: the poll of waitForReady finds the endpoint
PollEndpoint(k) ==
    /\ conn.kind = "sse"
    /\ conn.objs[k].attempt = "endpoint"
    /\ conn.messageEndpoint
    /\ \E posted \in Posted :
           Handler(SSE_waitForReady(Begin, k, posted), "ready", "timer", 0)
    /\ UNCHANGED intent

\* Stream Connection: ten seconds of polling found no endpoint
PollTimeout(k) ==
    /\ conn.kind = "sse"
    /\ conn.objs[k].attempt = "endpoint"
    /\ ~conn.messageEndpoint
    /\ Handler(SSEConnectFailed(Begin, k, "no message endpoint"),
               "pollTimeout", "timer", 0)
    /\ UNCHANGED intent

\* Stream Connection: the POST of the initialized notification settles
NotificationPosted(k, ok) ==
    /\ conn.kind = "sse"
    /\ conn.objs[k].attempt = "notify"
    /\ \E posted \in Posted :
           Handler(SSE_afterNotification(Begin, k, ok, posted),
                   "notified", "backend", 0)
    /\ UNCHANGED intent

\* Stream Connection: the catch blocks of the connect attempts whose
\* request disconnect() rejected
Rejections ==
    /\ conn.kind = "sse"
    /\ conn.rejected # {}
    /\ Handler(SSE_afterDisconnect(Begin), "rejections", "promise", 0)
    /\ UNCHANGED intent

\* Stream Connection: the POST of request id fails
PostFailed(id) ==
    /\ conn.kind = "sse"
    /\ id \in DOMAIN conn.pendingRequests
    /\ ~conn.pendingRequests[id].delivered
    /\ \E posted \in Posted :
           Handler(PostRejected(Begin, id, posted), "postFailed", "backend",
                   0)
    /\ UNCHANGED intent

\* a caller registers a status callback on a connection that has not been
\* used yet, as addServer does
OnStatusChange(callback) ==
    /\ ev.kind \in {"new", "onStatusChange"}
    /\ Handler(StatusCallbackSet(Begin, callback), "onStatusChange",
               "caller", callback)
    /\ UNCHANGED intent

ConnFresh ==
    /\ ev = NoEvent
    /\ intent = "none"
    /\ schemas = <<>>
    /\ sent = <<>>
    /\ result = Returned("new", "", <<>>)
    /\ ClientIdle
    /\ HubIdle
    /\ FrontIdle
    /\ ProcIdle

InitStdio ==
    /\ \E restart \in BOOLEAN : conn = AddedServer(NewStdio(restart))
    /\ ConnFresh

InitSSE ==
    /\ \E maxRetries \in MaxRetriesValues :
           conn = AddedServer(NewSSE(maxRetries))
    /\ ConnFresh

InitConn ==
    /\ \/ \E restart \in BOOLEAN : conn = AddedServer(NewStdio(restart))
       \/ \E maxRetries \in MaxRetriesValues :
              conn = AddedServer(NewSSE(maxRetries))
       \/ conn = AddedServer(NewHTTP)
    /\ ConnFresh

\* what callers, timers and the backend do with any connection
NextShared ==
    \/ CallerConnect
    \/ TimerConnect
    \/ CallerDisconnect
    \/ CallerRequest
    \/ \E id \in ResponseIds, isError \in BOOLEAN, n \in ToolCounts :
           Respond(id, isError, n)
    \/ \E id \in Issued : Timeout(id)

NextProcess ==
    \/ \E p \in DOMAIN conn.objs : GraceElapsed(p)
    \/ \E p \in DOMAIN conn.objs, code \in ExitCodes : ProcessExit(p, code)
    \/ \E p \in DOMAIN conn.objs : SpawnError(p)

NextStream ==
    \/ \E k \in DOMAIN conn.objs : EventSourceOpen(k)
    \/ \E k \in DOMAIN conn.objs, fatal \in BOOLEAN :
           EventSourceError(k, fatal)
    \/ \E k \in DOMAIN conn.objs : OpenTimeout(k)
    \/ \E k \in DOMAIN conn.objs : EndpointEvent(k)
    \/ \E k \in DOMAIN conn.objs : PollEndpoint(k)
    \/ \E k \in DOMAIN conn.objs : PollTimeout(k)
    \/ \E k \in DOMAIN conn.objs, ok \in BOOLEAN : NotificationPosted(k, ok)
    \/ \E id \in Issued : PostFailed(id)
    \/ Rejections

NextStdio == NextShared \/ NextProcess

NextConn == NextShared \/ NextProcess \/ NextStream

SpecStdio == InitStdio /\ [][NextStdio]_vars

NextSSE == NextShared \/ NextStream

SpecSSE == InitSSE /\ [][NextSSE]_vars

SpecConn == InitConn /\ [][NextConn]_vars

\* the connections of the three kinds with one configuration each
InitStatus ==
    /\ conn \in {AddedServer(NewStdio(TRUE)), AddedServer(NewSSE(1)),
                 AddedServer(NewHTTP)}
    /\ ConnFresh

NextStatus ==
    \/ NextConn
    \/ \E callback \in StatusCallbacks : OnStatusChange(callback)

SpecStatus == InitStatus /\ [][NextStatus]_vars


\* Process Connection: a subprocess that was sent a signal ends
SignalledExit(p) ==
    /\ p \in DOMAIN conn.objs
    /\ conn.objs[p].killed
    /\ \E code \in ExitCodes : ProcessExit(p, code)

\* Process Connection: the 'error' event of a spawn that failed
SpawnErrorEmitted(p) ==
    /\ p \in DOMAIN conn.objs
    /\ SpawnError(p)

\* Process Connection: the one-second wait of waitForReady ends
GraceTimer(p) ==
    /\ p \in DOMAIN conn.objs
    /\ GraceElapsed(p)

\* what the event loop and the operating system guarantee: every armed
\* timer fires, a spawn that failed reports its error, and a subprocess
\* that was sent a signal ends; a backend need not answer
FairStdio ==
    /\ WF_vars(TimerConnect)
    /\ \A id \in 1..MaxRequests : WF_vars(Timeout(id))
    /\ \A p \in 1..MaxSpawns :
           /\ WF_vars(GraceTimer(p))
           /\ WF_vars(SpawnErrorEmitted(p))
           /\ WF_vars(SignalledExit(p))

SpecStdioLive == SpecStdio /\ FairStdio

\* a Stream Connection whose configuration says maxRetries: 0
InitSSEZero ==
    /\ conn = AddedServer(NewSSE(0))
    /\ ConnFresh

SpecSSEZero == InitSSEZero /\ [][NextSSE]_vars
(***************************************************************************)
(* The stdout of a subprocess: the backend writes newline-terminated       *)
(* response lines, the pipe hands them to the 'data' listener in chunks of *)
(* any size.  A response line is three pieces of text, a newline is one    *)
(* character; a text is a JSON-RPC response exactly when it is the three   *)
(* pieces of one line.                                                     *)
(***************************************************************************)
\* the pieces a response line consists of
LinePieces == 3
\* largest number of requests the owner issues beyond MaxRequests in the
\* framing runs, so that several responses can share the pipe
MaxPipelined == 2
\* "\n"
Newline == [id |-> 0, part |-> 0]
\* a piece of the response to request id
Piece(id, part) == [id |-> id, part |-> part]
\* JSON.stringify(response) of the response to request id
ResponseLine(id) == [part \in 1..LinePieces |-> Piece(id, part)]
\* the number of tools the result of a response carries
ToolsReported == CHOOSE n \in ToolCounts : TRUE

\* String.prototype.trim(): the newlines at both ends are removed
RECURSIVE trim(_)
trim(s) ==
    IF s = <<>> THEN s
    ELSE IF Head(s) = Newline THEN trim(Tail(s))
    ELSE IF s[Len(s)] = Newline THEN trim(SubSeq(s, 1, Len(s) - 1))
    ELSE s

\* String.prototype.split("\n")
RECURSIVE split(_)
split(s) ==
    IF \A i \in DOMAIN s : s[i] # Newline THEN <<s>>
    ELSE LET i == CHOOSE j \in DOMAIN s :
                      /\ s[j] = Newline
                      /\ \A h \in 1..(j - 1) : s[h] # Newline
         IN  <<SubSeq(s, 1, i - 1)>> \o split(SubSeq(s, i + 1, Len(s)))

\* JSON.parse(line) followed by the destructuring of handleResponse: the id
\* of the response, or 0 when the text is not a response (JSON.parse throws
\* on a piece of a line)
ParsedId(line) ==
    IF Len(line) = LinePieces /\ line = ResponseLine(line[1].id)
    THEN line[1].id
    ELSE 0

\* the loop of handleOutput over the lines of one chunk
RECURSIVE handleLines(_, _)
handleLines(c, lines) ==
    IF lines = <<>> THEN c
    ELSE LET line == Head(lines)
             c1 == IF trim(line) = <<>> \/ ParsedId(line) = 0 THEN c
                   ELSE handleResponse(c, ParsedId(line), FALSE,
                                       ToolsReported, TRUE)
         IN  handleLines(c1, Tail(lines))

\* handleOutput(output): the 'data' listener of stdout
handleOutput(c, output) == handleLines(c, split(trim(output)))

\* the owner of the connection calls connect() once
FramingConnect ==
    /\ ev.kind = "new"
    /\ CallerConnect

\* the registry invokes callTool, ... on the connected connection:
\* sendRequest
OwnerRequest ==
    /\ conn.kind = "stdio"
    /\ isConnected(conn)
    /\ conn.requestId <= MaxRequests + MaxPipelined
    /\ LET r == SendRequest(Begin, 0, "tools/call", TRUE)
       IN  conn' = r.c
    /\ ev' = Event("request", "caller", conn.requestId)
    /\ UNCHANGED <<regVars, clientVars, hubVars, frontVars, intent, procVars>>

\* the backend writes the response to request id and a newline
BackendWrites(id) ==
    /\ conn.kind = "stdio"
    /\ id \in DOMAIN conn.pendingRequests
    /\ conn.pendingRequests[id].delivered
    /\ id \notin pipe.written
    /\ pipe' = [stdout |-> pipe.stdout \o ResponseLine(id) \o <<Newline>>,
                written |-> pipe.written \cup {id}]
    /\ UNCHANGED <<regVars, clientVars, connVars, hubVars, frontVars,
                   logLevel>>

\* the pipe delivers its first n characters as one 'data' event
StdoutData(n) ==
    /\ conn.kind = "stdio"
    /\ n \in 1..Len(pipe.stdout)
    /\ conn' = handleOutput(Begin, SubSeq(pipe.stdout, 1, n))
    /\ pipe' = [pipe EXCEPT !.stdout = SubSeq(@, n + 1, Len(@))]
    /\ ev' = Event("data", "backend", n)
    /\ UNCHANGED <<regVars, clientVars, hubVars, frontVars, intent, logLevel>>

InitFraming ==
    /\ conn = AddedServer(NewStdio(FALSE))
    /\ ConnFresh

NextFraming ==
    \/ FramingConnect
    \/ OwnerRequest
    \/ \E p \in DOMAIN conn.objs : GraceElapsed(p)
    \/ \E id \in Issued : BackendWrites(id)
    \/ \E n \in 1..Len(pipe.stdout) : StdoutData(n)

SpecFraming == InitFraming /\ [][NextFraming]_vars
(***************************************************************************)
(* NotificationManager.  A callback is a function the caller registered;  *)
(* what it does when it is invoked is an input of the send that invokes    *)
(* it: it returns, throws, or registers or unregisters a global callback   *)
(* before it returns.                                                      *)
(***************************************************************************)
\* the callbacks callers register
Callbacks == {1, 2, 3}
\* the most entries globalNotificationCallbacks holds
MaxCallbacks == 2
\* the progress tokens callers use
Tokens == {"t"}
\* the URIs callers subscribe to and unsubscribe from
SubscriptionUris == {"file:///x", "*"}
\* the URIs resource updates are sent for
UpdatedUris == {"file:///x", "file:///y"}

\* the send*Notification methods that only build an envelope and call
\* deliverNotification
PlainMethods ==
    {"notifications/cancelled", "notifications/message",
     "notifications/resources/list_changed",
     "notifications/tools/list_changed",
     "notifications/prompts/list_changed",
     "notifications/roots/list_changed"}

Returns == [does |-> "return", cb |-> 0]
CallbackBehaviours ==
    {Returns, [does |-> "throw", cb |-> 0]}
    \cup {[does |-> "unregister", cb |-> c] : c \in Callbacks}
    \cup {[does |-> "register", cb |-> c] : c \in Callbacks}

\* the elements of a list
Elements(list) == {list[i] : i \in 1..Len(list)}

\* what each registered callback does during one send
Behaviours == [Elements(hub.globalNotificationCallbacks) ->
                   CallbackBehaviours]

\* globalNotificationCallbacks.push(callback)
Pushed(list, callback) == Append(list, callback)

\* globalNotificationCallbacks.indexOf(callback), from 1; 0 for -1
IndexOfCallback(list, callback) ==
    IF callback \in Elements(list)
    THEN CHOOSE i \in 1..Len(list) :
             list[i] = callback /\ \A j \in 1..(i - 1) : list[j] # callback
    ELSE 0

\* index > -1 and splice(index, 1)
Spliced(list, callback) ==
    LET index == IndexOfCallback(list, callback)
    IN  IF index = 0 THEN list
        ELSE SubSeq(list, 1, index - 1) \o SubSeq(list, index + 1, Len(list))

\* a deliverNotification about to start on list
StartOf(list) ==
    [list |-> list, invoked |-> <<>>, unregistered |-> {},
     registered |-> {}, threw |-> {}]

\* the call of one callback inside the try block and what the callback
\* does to the list; a callback registers only while there is room
Invoke(d, callback, b) ==
    LET d1 == [d EXCEPT !.invoked = Append(@, callback)]
    IN  CASE b.does = "throw" -> [d1 EXCEPT !.threw = @ \cup {callback}]
          [] b.does = "unregister" ->
                 [d1 EXCEPT !.list = Spliced(@, b.cb),
                            !.unregistered =
                                @ \cup (Elements(d.list) \cap {b.cb})]
          [] b.does = "register" /\ Len(d.list) < MaxCallbacks ->
                 [d1 EXCEPT !.list = Pushed(@, b.cb),
                            !.registered = @ \cup {b.cb}]
          [] OTHER -> d1

\* a loop without try block: the first callback that throws ends it
RECURSIVE FanOut_NoTry(_, _, _)
FanOut_NoTry(d, i, beh) ==
    IF i > Len(d.list) THEN d
    ELSE LET callback == d.list[i]
             b == IF callback \in DOMAIN beh THEN beh[callback] ELSE Returns
         IN  IF b.does = "throw" THEN Invoke(d, callback, b)
             ELSE FanOut_NoTry(Invoke(d, callback, b), i + 1, beh)

\* the for-of loop of deliverNotification from index i on: the array
\* iterator reads the length and the element at each step
RECURSIVE FanOut(_, _, _)
FanOut(d, i, beh) ==
    IF i > Len(d.list) THEN d
    ELSE LET callback == d.list[i]
             b == IF callback \in DOMAIN beh THEN beh[callback] ELSE Returns
         IN  FanOut(Invoke(d, callback, b), i + 1, beh)

\* deliverNotification(notification)
deliverNotification(beh) ==
    FanOut(StartOf(hub.globalNotificationCallbacks), 1, beh)

\* the record of a send: whether it reached deliverNotification, what the
\* fan-out did, whether the token's callback was called and whether the
\* send threw
Delivery(method, uri, delivered, d, token, raised) ==
    [method |-> method, uri |-> uri, delivered |-> delivered,
     before |-> hub.globalNotificationCallbacks,
     invoked |-> d.invoked, unregistered |-> d.unregistered,
     registered |-> d.registered, threw |-> d.threw,
     token |-> token, raised |-> raised]

HubStep == UNCHANGED <<regVars, clientVars, connVars, frontVars, procVars>>

registerGlobalNotificationCallback(callback) ==
    /\ Len(hub.globalNotificationCallbacks) < MaxCallbacks
    /\ hub' = [hub EXCEPT !.globalNotificationCallbacks =
                              Pushed(@, callback)]
    /\ delivery' = NoDelivery
    /\ HubStep

unregisterGlobalNotificationCallback(callback) ==
    /\ hub' = [hub EXCEPT !.globalNotificationCallbacks =
                              Spliced(@, callback)]
    /\ delivery' = NoDelivery
    /\ HubStep

registerProgressCallback(progressToken) ==
    /\ hub' = [hub EXCEPT !.progressCallbacks = @ \cup {progressToken}]
    /\ delivery' = NoDelivery
    /\ HubStep

unregisterProgressCallback(progressToken) ==
    /\ hub' = [hub EXCEPT !.progressCallbacks = @ \ {progressToken}]
    /\ delivery' = NoDelivery
    /\ HubStep

subscribeResource(uri) ==
    /\ hub' = [hub EXCEPT !.subscribedResources = @ \cup {uri}]
    /\ delivery' = NoDelivery
    /\ HubStep

unsubscribeResource(uri) ==
    /\ hub' = [hub EXCEPT !.subscribedResources = @ \ {uri}]
    /\ delivery' = NoDelivery
    /\ HubStep

\* sendCancelledNotification, sendLoggingMessageNotification and the four
\* send...ListChangedNotification
sendNotification(method, beh) ==
    LET d == deliverNotification(beh)
    IN  /\ hub' = [hub EXCEPT !.globalNotificationCallbacks = d.list]
        /\ delivery' = Delivery(method, "", TRUE, d, FALSE, FALSE)
        /\ HubStep

\* sendProgressNotification(progressToken, ...): the token's callback is
\* called outside any try block; tokenThrows says whether it throws
sendProgressNotification(progressToken, beh, tokenThrows) ==
    LET d == deliverNotification(beh)
        token == progressToken \in hub.progressCallbacks
    IN  /\ hub' = [hub EXCEPT !.globalNotificationCallbacks = d.list]
        /\ delivery' = Delivery("notifications/progress", "", TRUE, d, token,
                                token /\ tokenThrows)
        /\ HubStep

\* a test that knows no wildcard
isResourceSubscribed_NoWildcard(uri) == uri \in hub.subscribedResources

\* isResourceSubscribed(uri), the test of sendResourceUpdatedNotification
isResourceSubscribed(uri) ==
    uri \in hub.subscribedResources \/ "*" \in hub.subscribedResources

\* sendResourceUpdatedNotification(uri)
sendResourceUpdatedNotification(uri, beh) ==
    LET delivered == isResourceSubscribed(uri)
        d == IF delivered THEN deliverNotification(beh)
             ELSE StartOf(hub.globalNotificationCallbacks)
    IN  /\ hub' = [hub EXCEPT !.globalNotificationCallbacks = d.list]
        /\ delivery' = Delivery("notifications/resources/updated", uri,
                                delivered, d, FALSE, FALSE)
        /\ HubStep

\* cleanup()
cleanup ==
    /\ hub' = NewNotificationManager
    /\ delivery' = NoDelivery
    /\ HubStep

InitHub ==
    /\ HubIdle
    /\ FrontIdle
    /\ ProcIdle
    /\ ConnIdle
    /\ schemas = <<>>
    /\ sent = <<>>
    /\ result = Returned("new", "", <<>>)
    /\ ClientIdle

NextHub ==
    \/ \E c \in Callbacks : registerGlobalNotificationCallback(c)
    \/ \E c \in Callbacks : unregisterGlobalNotificationCallback(c)
    \/ \E t \in Tokens : registerProgressCallback(t)
    \/ \E t \in Tokens : unregisterProgressCallback(t)
    \/ \E uri \in SubscriptionUris : subscribeResource(uri)
    \/ \E uri \in SubscriptionUris : unsubscribeResource(uri)
    \/ \E method \in PlainMethods, beh \in Behaviours :
           sendNotification(method, beh)
    \/ \E t \in Tokens, beh \in Behaviours, tokenThrows \in BOOLEAN :
           sendProgressNotification(t, beh, tokenThrows)
    \/ \E uri \in UpdatedUris, beh \in Behaviours :
           sendResourceUpdatedNotification(uri, beh)
    \/ cleanup

SpecHub == InitHub /\ [][NextHub]_vars
(***************************************************************************)
(* MCPMethodHandler.handleInitialize with MCPConnectionManager             *)
(* .getSchemaStatus, and what happens to the members of a schema between   *)
(* two initialize requests.                                                *)
(***************************************************************************)
\* totalTools += status.toolCount || 0 over the servers
RECURSIVE TotalTools(_)
TotalTools(servers) ==
    IF servers = <<>> THEN 0
    ELSE Head(servers).toolCount + TotalTools(Tail(servers))

\* the servers whose status value is "connected"
ConnectedServers(servers) ==
    {i \in 1..Len(servers) : servers[i].status = "connected"}

\* MCPConnectionManager.getSchemaStatus of a registered schema
getSchemaStatus(servers) ==
    [mcpServers |-> Len(servers),
     totalTools |-> TotalTools(servers),
     connectedServers |-> Cardinality(ConnectedServers(servers))]

\* a handleInitialize that connects all whatever the connected count is
ConnectAllWanted_Always(servers) == TRUE

\* schemaStatus.connectedServers === 0
ConnectAllWanted(servers) == getSchemaStatus(servers).connectedServers = 0

\* the members connectAll invokes connect() on: all of them
ConnectInvocations(servers) == [i \in 1..Len(servers) |-> servers[i].id]

\* the members of the schema when handleInitialize returns
InitializedServers(servers) ==
    IF ConnectAllWanted(servers) THEN connectAll(servers) ELSE servers

\* the tools/list probes answered during the handshakes of this connectAll
RECURSIVE NewConnectRequests(_, _)
NewConnectRequests(before, after) ==
    IF before = <<>> THEN <<>>
    ELSE (IF Head(before).status # "connected"
             /\ Head(after).status = "connected"
          THEN <<[server |-> Head(after).id, method |-> "tools/list",
                  params |-> <<>>]>>
          ELSE <<>>) \o NewConnectRequests(Tail(before), Tail(after))

\* what handleInitialize(schemaName, params) returns or throws, for params
\* that is an object: the descriptor carries the counts of the status read
\* after the connect-all; invoked lists the members connect() was invoked on
handleInitializeResult(schemaName) ==
    IF ~hasSchema(schemaName) THEN SchemaNotFound("initialize", schemaName)
    ELSE LET before == schemas[schemaName]
             updatedSchemaStatus == getSchemaStatus(InitializedServers(before))
         IN  [op |-> "initialize", schema |-> schemaName, threw |-> FALSE,
              before |-> before,
              invoked |-> IF ConnectAllWanted(before)
                          THEN ConnectInvocations(before) ELSE <<>>,
              value |-> [servers |-> updatedSchemaStatus.mcpServers,
                         totalTools |-> updatedSchemaStatus.totalTools,
                         connectedServers |->
                             updatedSchemaStatus.connectedServers]]

\* handleMethod(schemaName, "initialize", params)
handleInitialize(schemaName) ==
    /\ result' = handleInitializeResult(schemaName)
    /\ schemas' = IF hasSchema(schemaName)
                  THEN [schemas EXCEPT
                            ![schemaName] = InitializedServers(@)]
                  ELSE schemas
    /\ sent' = IF hasSchema(schemaName)
               THEN NewConnectRequests(schemas[schemaName],
                                       InitializedServers(schemas[schemaName]))
               ELSE <<>>
    /\ UNCHANGED <<clientVars, connVars, hubVars, frontVars, procVars>>

\* the subprocess of a connected Process member exits: its exit listener
\* sets the status to disconnected
MemberExits(schemaName, i) ==
    /\ schemas[schemaName][i].type = "stdio"
    /\ schemas[schemaName][i].status = "connected"
    /\ schemas' = [schemas EXCEPT ![schemaName][i].status = "disconnected",
                                  ![schemaName][i].transport = "none"]
    /\ sent' = <<>>
    /\ result' = Returned("exit", schemaName, [member |-> i])
    /\ UNCHANGED <<clientVars, connVars, hubVars, frontVars, procVars>>

\* the backend of a member that could not be reached, or that rejected the
\* handshake, starts to answer
BackendRecovers(schemaName, i) ==
    /\ schemas[schemaName][i].backend.mode # "ok"
    /\ schemas' = [schemas EXCEPT ![schemaName][i].backend.mode = "ok"]
    /\ sent' = <<>>
    /\ result' = Returned("recovered", schemaName, [member |-> i])
    /\ UNCHANGED <<clientVars, connVars, hubVars, frontVars, procVars>>

\* the configurations of the schema "default": one or two members, each a
\* Process member that connects, a Process member whose spawn fails or a
\* Stream member whose backend rejects the handshake
InitializeOptions ==
    {<<"stdio", "ok">>, <<"stdio", "down">>, <<"sse", "rejects">>}

InitializeEntries ==
    {[id |-> i, type |-> o[1],
      backend |-> [mode |-> o[2], tools |-> t, resources |-> t]] :
        i \in ServerIds, o \in InitializeOptions, t \in ToolLists}

InitializeConfigs ==
    {cfg \in UNION {[1..k -> InitializeEntries] :
                        k \in 1..Cardinality(ServerIds)} : DistinctIds(cfg)}

InitInitialize ==
    /\ \E cfg \in InitializeConfigs :
           schemas = [s \in {"default"} |-> AddedServers(cfg)]
    /\ sent = <<>>
    /\ result = Returned("addSchema", "default", [enabled |-> TRUE])
    /\ ClientIdle
    /\ ConnIdle
    /\ HubIdle
    /\ FrontIdle
    /\ ProcIdle

NextInitialize ==
    \/ \E n \in CallerSchemas : handleInitialize(n)
    \/ \E i \in 1..Len(schemas["default"]) : MemberExits("default", i)
    \/ \E i \in 1..Len(schemas["default"]) : BackendRecovers("default", i)

SpecInitialize == InitInitialize /\ [][NextInitialize]_vars

(***************************************************************************)
(* MCPMethodHandler.handleMethod: the switch over the method name.  The    *)
(* arms modelled are initialize, logging/setLevel, the ones that delegate  *)
(* to the MCPConnectionManager operations above, the two that only return  *)
(* {} and the default arm.                                                 *)
(***************************************************************************)
\* the case labels of the switch
RecognisedMethods ==
    {"initialize", "notifications/initialized", "logging/setLevel",
     "tools/list", "tools/call", "resources/list", "resources/read",
     "resources/templates/list", "resources/subscribe",
     "resources/unsubscribe", "prompts/list", "prompts/get", "ping",
     "completion/complete", "roots/list", "sampling/createMessage",
     "elicitation/create"}

\* the method names callers pass: the labels of the modelled arms, three
\* more notifications of the protocol and a name of no protocol method
MethodInputs ==
    {"initialize", "notifications/initialized", "logging/setLevel", "ping",
     "tools/list", "tools/call",
     "resources/list", "resources/read", "prompts/get",
     "notifications/cancelled", "notifications/progress",
     "notifications/roots/list_changed", "foo/bar"}

\* handleInitializedNotification and handlePing: return {}
EmptyResult(schemaName, method) ==
    [op |-> "handleMethod", schema |-> schemaName, method |-> method,
     threw |-> FALSE, value |-> [payload |-> "{}"]]

\* the default arm: throw new Error(`Unsupported method: ${method}`)
UnsupportedMethod(schemaName, method) ==
    [op |-> "handleMethod", schema |-> schemaName, method |-> method,
     threw |-> TRUE, value |-> [msg |-> "unsupportedMethod",
                                method |-> method]]

\* the arms that touch no connection: the two that return {} and the
\* default arm
Dispatch(schemaName, method) ==
    IF method \in {"notifications/initialized", "ping"}
    THEN EmptyResult(schemaName, method)
    ELSE UnsupportedMethod(schemaName, method)

\* params.level of a logging/setLevel request: two levels of the logger, a
\* level name of the protocol the logger does not know, and none
LevelInputs == {"debug", "warn", "notice", ""}

\* Logger.parseLogLevel(level)
parseLogLevel(level) ==
    IF level \in LogLevels THEN level ELSE DefaultLogLevel

\* handleSetLevel(schemaName, params): logger.setLevel(params.level)
handleSetLevel(schemaName, level) ==
    /\ result' = IF level = ""
                 THEN [op |-> "handleMethod", schema |-> schemaName,
                       method |-> "logging/setLevel", threw |-> TRUE,
                       value |-> [msg |-> "levelRequired"]]
                 ELSE EmptyResult(schemaName, "logging/setLevel")
    /\ logLevel' = IF level = "" THEN logLevel ELSE parseLogLevel(level)
    /\ sent' = <<>>
    /\ UNCHANGED <<schemas, clientVars, connVars, hubVars, frontVars, pipe>>

\* handleMethod(schemaName, method, params, cursor); params carries the
\* name or the uri the arm requires
handleMethod(schemaName, method) ==
    \/ /\ method = "initialize"
       /\ handleInitialize(schemaName)
    \/ /\ method = "logging/setLevel"
       /\ \E level \in LevelInputs : handleSetLevel(schemaName, level)
    \/ /\ method = "tools/list"
       /\ \E c \in CursorInputs : listTools(schemaName, c)
    \/ /\ method = "resources/list"
       /\ \E c \in CursorInputs : listResources(schemaName, c)
    \/ /\ method = "tools/call"
       /\ \E name \in ToolNameInputs, a \in Arguments,
             resp \in ToolResponses :
              callTool(schemaName, [name |-> name, arguments |-> a], resp)
    \/ /\ method = "resources/read"
       /\ \E uri \in Uris, answers \in [ServerIds -> MemberAnswers] :
              readResource(schemaName, uri, answers)
    \/ /\ method = "prompts/get"
       /\ \E name \in PromptNames, answers \in [ServerIds -> MemberAnswers] :
              getPrompt(schemaName, name, answers)
    \/ /\ \/ method \in {"notifications/initialized", "ping"}
          \/ method \notin RecognisedMethods
       /\ result' = Dispatch(schemaName, method)
       /\ sent' = <<>>
       /\ UNCHANGED <<schemas, clientVars, connVars, hubVars, frontVars, procVars>>

\* a proxy with the schema "default" and one connected server that
\* exposes one or two tools and resources
InitDispatch ==
    /\ \E n \in 1..2 :
           schemas = [s \in {"default"} |-> AddedServers(<<PagingEntry(n)>>)]
    /\ sent = <<>>
    /\ result = Returned("addSchema", "default", [enabled |-> TRUE])
    /\ ClientIdle
    /\ ConnIdle
    /\ HubIdle
    /\ FrontIdle
    /\ ProcIdle

NextDispatch == \E method \in MethodInputs : handleMethod("default", method)

SpecDispatch == InitDispatch /\ [][NextDispatch]_vars
(***************************************************************************)
(* StdioProxyServer: the STDIO front end.  It reads lines from the stdin   *)
(* of the proxy process, hands each parsed message to                      *)
(* MCPMethodHandler.handleMethod and writes one line per response to       *)
(* stdout.  Every 'data' event carries one complete line.  A JSON value of *)
(* the id member is held as its JSON text.                                 *)
(***************************************************************************)
\* largest number of lines that arrive on stdin
MaxLines == 2

\* a member that is absent from the message
Undefined == <<>>
\* the id members of the messages that arrive: absent, 0, 1 and "a"
FrontIds == {Undefined, <<48>>, <<49>>, <<34, 97, 34>>}
\* the values of id that are falsy: absent, null, 0 and ""
FalsyIds == {Undefined, <<110, 117, 108, 108>>, <<48>>, <<34, 34>>}
\* the method members of the messages that arrive; "" stands for a message
\* without method
FrontMethods ==
    {"", "ping", "tools/list", "notifications/initialized",
     "notifications/cancelled"}
\* the parsed messages
FrontMessages == [id : FrontIds, method : FrontMethods]

\* a line that has arrived on stdin and what became of it: "dropped",
\* "invalid" (answered with Invalid Request), "forwarded" (handleRequest
\* awaits handleMethod), "answered"
NewLine(msg) == [msg |-> msg, fate |-> "arrived", requestId |-> Undefined]

\* sendOutput(response): one line on stdout; line is the input line whose
\* handling wrote it
sendOutput(f, response) == [f EXCEPT !.stdout = Append(@, response)]

\* sendResponse(id, result)
sendResponse(f, i, id) ==
    sendOutput(f, [line |-> i, id |-> id, error |-> 0])

\* sendError(id, code, message, data)
sendError(f, i, id, code) ==
    sendOutput(f, [line |-> i, id |-> id, error |-> code])

\* const requestId = request.id || this.requestId++
RequestIdOf(f, msg) ==
    IF msg.id \in FalsyIds THEN toString(f.requestId) ELSE msg.id

\* handleRequest(request) up to its await of handleMethod
handleRequest(f, i) ==
    LET msg == f.lines[i].msg
        requestId == RequestIdOf(f, msg)
        f1 == [f EXCEPT !.requestId = IF msg.id \in FalsyIds THEN @ + 1
                                      ELSE @,
                        !.lines[i].requestId = requestId]
    IN  IF msg.method = ""
        THEN [sendError(f1, i, requestId, -32600) EXCEPT
                  !.lines[i].fate = "invalid"]
        ELSE [f1 EXCEPT !.lines[i].fate = "forwarded"]

\* handleInput(input) for an input of one line that parses
handleInput(f, i) ==
    IF ~f.isRunning THEN [f EXCEPT !.lines[i].fate = "dropped"]
    ELSE handleRequest(f, i)

\* handleRawInput(input)
handleRawInput(f, i) ==
    IF ~f.handleJsonRpcRequests THEN [f EXCEPT !.lines[i].fate = "dropped"]
    ELSE handleInput(f, i)

\* what handleMethod(currentSchema, method) returns or throws for the
\* methods that arrive
Forwarded(schemaName, method) ==
    IF method = "tools/list" THEN listToolsResult(schemaName, <<>>)
    ELSE Dispatch(schemaName, method)

\* the error code the catch block of handleRequest picks from the message:
\* "not found" gives -32602, "not supported" -32601, anything else -32603
ErrorCodeOf(outcome) ==
    IF outcome.value.msg = "schemaNotFound" THEN -32602 ELSE -32603

\* the rest of handleRequest once handleMethod has settled
handleRequestRest(f, i, outcome) ==
    [(IF outcome.threw
      THEN sendError(f, i, f.lines[i].requestId, ErrorCodeOf(outcome))
      ELSE sendResponse(f, i, f.lines[i].requestId))
     EXCEPT !.lines[i].fate = "answered"]

\* stop()
stop(f) == IF ~f.isRunning THEN f ELSE [f EXCEPT !.isRunning = FALSE]

FrontStep == UNCHANGED <<regVars, clientVars, connVars, hubVars, procVars>>

\* start(): the listeners are attached and the timer of two seconds is
\* armed
start ==
    /\ ~front.isRunning
    /\ ~front.listening
    /\ front' = [front EXCEPT !.isRunning = TRUE, !.listening = TRUE,
                              !.timer = TRUE]
    /\ FrontStep

\* the timer of start() fires: setupRequestHandling()
setupRequestHandling ==
    /\ front.timer
    /\ front' = [front EXCEPT !.timer = FALSE,
                              !.handleJsonRpcRequests = TRUE]
    /\ FrontStep

\* a 'data' event of stdin with one line
StdinData(msg) ==
    /\ front.listening
    /\ front.stdin = "open"
    /\ Len(front.lines) < MaxLines
    /\ front' = handleRawInput([front EXCEPT !.lines = Append(@, NewLine(msg))],
                               Len(front.lines) + 1)
    /\ FrontStep

\* the 'end' event of stdin: stop()
StdinEnd ==
    /\ front.listening
    /\ front.stdin = "open"
    /\ front' = stop([front EXCEPT !.stdin = "ended"])
    /\ FrontStep

\* handleMethod settles for the request of line i
RequestSettles(i) ==
    /\ i \in DOMAIN front.lines
    /\ front.lines[i].fate = "forwarded"
    /\ LET method == front.lines[i].msg.method
           outcome == Forwarded(front.currentSchema, method)
       IN  /\ front' = handleRequestRest(front, i, outcome)
           /\ result' = outcome
           /\ sent' = IF method = "tools/list" /\ hasSchema(front.currentSchema)
                      THEN ListRequests(schemas[front.currentSchema],
                                        "tools/list")
                      ELSE <<>>
    /\ UNCHANGED <<schemas, clientVars, connVars, hubVars, procVars>>

\* a proxy whose schema "default" has one connected server, before start()
InitFront ==
    /\ schemas = [s \in {"default"} |-> AddedServers(<<PagingEntry(1)>>)]
    /\ sent = <<>>
    /\ result = Returned("addSchema", "default", [enabled |-> TRUE])
    /\ ClientIdle
    /\ ConnIdle
    /\ HubIdle
    /\ FrontIdle
    /\ ProcIdle

NextFront ==
    \/ start
    \/ setupRequestHandling
    \/ \E msg \in FrontMessages : StdinData(msg)
    \/ StdinEnd
    \/ \E i \in DOMAIN front.lines : RequestSettles(i)

SpecFront == InitFront /\ [][NextFront]_vars

\* timers fire and promises settle
FairFront ==
    /\ WF_vars(setupRequestHandling)
    /\ \A i \in 1..MaxLines : WF_vars(RequestSettles(i))

SpecFrontLive == SpecFront /\ FairFront

(***************************************************************************)
(* JSONRPCHandler.parseRequest / validateRequest.  A JSON value is a       *)
(* record of its type and its text; an object carries its jsonrpc, method  *)
(* and id members, each a JSON value or Absent.                            *)
(***************************************************************************)
\* the values of the MCP_METHODS table
MCP_METHODS ==
    {"initialize", "notifications/initialized", "notifications/cancelled",
     "notifications/progress", "logging/setLevel", "notifications/message",
     "tools/list", "tools/call", "notifications/tools/list_changed",
     "resources/list", "resources/read", "resources/templates/list",
     "resources/subscribe", "resources/unsubscribe",
     "notifications/resources/list_changed",
     "notifications/resources/updated", "prompts/list", "prompts/get",
     "notifications/prompts/list_changed", "ping", "completion/complete",
     "roots/list", "notifications/roots/list_changed",
     "sampling/createMessage", "elicitation/create"}

\* a member the object does not have (undefined when read)
Absent == [t |-> "undefined", s |-> ""]
JsonString(s) == [t |-> "string", s |-> s]
JsonNumber(s) == [t |-> "number", s |-> s]
JsonNull == [t |-> "null", s |-> "null"]

\* the jsonrpc, method and id members of the objects that are parsed
JsonrpcMembers == {Absent, JsonString("2.0"), JsonString("1.0"),
                   JsonNumber("2")}
MethodMembers == {Absent, JsonString("tools/list"), JsonString("ping"),
                  JsonString("test"), JsonString(""), JsonNumber("1")}
IdMembers == {Absent, JsonNumber("0"), JsonNumber("1"), JsonString("a"),
              JsonNull}

\* the values JSON.parse returns: objects, and null, a number, a string and
\* an array
JsonObjects ==
    [t : {"object"}, jsonrpc : JsonrpcMembers, method : MethodMembers,
     id : IdMembers]
JsonValues ==
    JsonObjects \cup {JsonNull, JsonNumber("1"), JsonString("a"),
                      [t |-> "array", s |-> "[]"]}

\* the strings handed to parseRequest: the text of a JSON value, or a text
\* JSON.parse throws on
RequestTexts ==
    {[parses |-> TRUE, value |-> v] : v \in JsonValues}
    \cup {[parses |-> FALSE, value |-> JsonString("invalid json")]}

\* request[name] for a value JSON.parse returned
Member(request, name) ==
    IF request.t # "object" THEN Absent
    ELSE CASE name = "jsonrpc" -> request.jsonrpc
           [] name = "method" -> request.method
           [] name = "id" -> request.id

\* isValidMCPMethod(method)
isValidMCPMethod(method) == method.s \in MCP_METHODS

\* validateRequest(request)
validateRequest(request) ==
    IF request.t \notin {"object", "array"} THEN FALSE
    ELSE IF Member(request, "jsonrpc") # JsonString("2.0") THEN FALSE
    ELSE IF Member(request, "method").t # "string"
            \/ Member(request, "method").s = ""
    THEN FALSE
    ELSE isValidMCPMethod(Member(request, "method"))

\* parseRequest(data): the parsed request, or null
parseRequest(data) ==
    IF ~data.parses THEN JsonNull
    ELSE IF ~validateRequest(data.value) THEN JsonNull
    ELSE data.value

\* a caller holds the text data
InitParse ==
    /\ \E data \in RequestTexts : result = Returned("data", "", data)
    /\ schemas = <<>>
    /\ sent = <<>>
    /\ ClientIdle
    /\ ConnIdle
    /\ HubIdle
    /\ FrontIdle
    /\ ProcIdle

\* the caller invokes parseRequest(data)
ParseRequest ==
    /\ result.op = "data"
    /\ result' = [op |-> "parseRequest", schema |-> "", threw |-> FALSE,
                  data |-> result.value,
                  value |-> parseRequest(result.value)]
    /\ UNCHANGED <<schemas, sent, clientVars, connVars, hubVars, frontVars, procVars>>

NextParse == ParseRequest

SpecParse == InitParse /\ [][NextParse]_vars

(***************************************************************************)
(* Properties of the registry (SpecRegistry).                              *)
(***************************************************************************)
NoDash(name) == \A i \in 1..Len(name) : name[i] # Dash

FirstDashAt(name, k) ==
    /\ k \in 1..Len(name)
    /\ name[k] = Dash
    /\ \A j \in 1..(k - 1) : name[j] # Dash

\* no hyphen, or nothing before the first hyphen, or nothing after it
Malformed(name) ==
    \/ NoDash(name)
    \/ FirstDashAt(name, 1)
    \/ FirstDashAt(name, Len(name))

\* the text before the first hyphen of a well-formed name
NamedId(name) ==
    LET k == CHOOSE k \in 1..Len(name) : FirstDashAt(name, k)
    IN  SubSeq(name, 1, k - 1)

CallToolReturned == result.op = "callTool" /\ ~result.threw

C2_NameRoundTrip ==
    CallToolReturned =>
        LET servers == schemas[result.schema]
        IN  \A i \in 1..Len(servers) :
                \A k \in 1..Len(ServerTools(servers[i])) :
                    ServerTools(servers[i])[k].name = result.params.name =>
                        sent = <<ToolCallRequest(servers[i],
                                                 servers[i].backend.tools[k],
                                                 result.params.arguments)>>

\* C3: the names of the tools in a listTools result are pairwise distinct
\* (the server ids of a schema always are).
C3_NamesDistinct ==
    (result.op = "listTools" /\ ~result.threw) =>
        \A i, j \in 1..Len(result.value.items) :
            i # j => result.value.items[i].name # result.value.items[j].name

\* the prefixed tools of the servers whose status is connected
RECURSIVE ToolsOfConnected(_)
ToolsOfConnected(servers) ==
    IF servers = <<>> THEN <<>>
    ELSE (IF Head(servers).status = "connected"
          THEN [i \in 1..Len(Head(servers).backend.tools) |->
                   PrefixedTool(Head(servers).id,
                                Head(servers).backend.tools[i])]
          ELSE <<>>) \o ToolsOfConnected(Tail(servers))

\* C6: addSchema returns normally and registers the schema whatever subset
\* of its servers fails to connect; each server ends in status error or
\* connected, and a following listTools returns exactly the prefixed tools
\* of the servers in status connected.
C6_ErrorContainment ==
    /\ (result.op = "addSchema" /\ result.value.enabled) =>
           ~result.threw /\ hasSchema(result.schema)
    /\ \A n \in DOMAIN schemas : \A i \in 1..Len(schemas[n]) :
           schemas[n][i].status \in {"connected", "error"}
    /\ (result.op = "listTools" /\ ~result.threw /\ result.cursor = <<>>) =>
           result.value.items = ToolsOfConnected(schemas[result.schema])

\* C14: when callTool delegates to a connected server and server.callTool
\* rejects (deadline, failed POST, error field of the response), callTool
\* throws nothing and returns isError = true with a text that carries the
\* error's message; when the backend's result has no isError, callTool
\* returns that result with isError = false added and nothing else
\* changed.
C14_ToolCallNormalized ==
    (CallToolReturned /\ sent # <<>>) =>
        LET resp == result.resp
            value == result.value
        IN  /\ resp.outcome = "raise" =>
                  /\ value.isError
                  /\ Len(value.content) = 1
                  /\ value.content[1] = [msg |-> "executionError",
                                         error |-> resp.message]
            /\ (resp.outcome = "result"
                    /\ "isError" \notin DOMAIN resp.result) =>
                  /\ DOMAIN value = DOMAIN resp.result \cup {"isError"}
                  /\ value.isError = FALSE
                  /\ \A f \in DOMAIN resp.result : value[f] = resp.result[f]

\* callTool has just returned the error result made from a deadline that
\* passed on a connected server
C14_Witness ==
    /\ CallToolReturned
    /\ sent # <<>>
    /\ result.resp.outcome = "raise"
    /\ result.resp.message = "Request timeout: tools/call"
    /\ result.value.isError

\* C15: every resource in a listResources result carries the name
\* {serverId}-{name} of a server that declares it, so the names of the
\* resources of two servers differ in the aggregate.
C15_ResourcesNamespaced ==
    (result.op = "listResources" /\ ~result.threw) =>
        LET servers == schemas[result.schema]
            items == result.value.items
        IN  /\ \A k \in 1..Len(items) :
                   \E i \in 1..Len(servers) :
                       \E r \in 1..Len(servers[i].backend.resources) :
                           items[k].name =
                               PrefixedName(servers[i].id,
                                            servers[i].backend.resources[r])
            /\ \A k, l \in 1..Len(items) :
                   k # l => items[k].name # items[l].name

\* the members of a schema whose isConnected() is true, in registration
\* order
ConnectedMembers(servers) ==
    SelectSeq([i \in 1..Len(servers) |-> i],
              LAMBDA i : IsConnected(servers[i]))

\* member i answers the call with contents (messages)
AnswersSome(servers, answers, i) ==
    Reaches(servers[i]) /\ answers[servers[i].id] = "some"

\* C16: readResource and getPrompt call the connected members of the
\* schema in registration order and no other member; they return the
\* result of the first one that answers with contents (messages) and call
\* none after it; when none does, they throw a not-found error that names
\* the URI (the prompt name).
C16_FirstNonEmpty ==
    (result.op \in {"readResource", "getPrompt"} /\ hasSchema(result.schema))
    =>
        LET servers == schemas[result.schema]
            connected == ConnectedMembers(servers)
            tried == result.tried
        IN  /\ Len(tried) <= Len(connected)
            /\ tried = SubSeq(connected, 1, Len(tried))
            /\ \A k \in 1..(Len(tried) - 1) :
                   ~AnswersSome(servers, result.answers, tried[k])
            /\ ~result.threw =>
                   /\ tried # <<>>
                   /\ AnswersSome(servers, result.answers, tried[Len(tried)])
                   /\ result.value = [msg |-> "answer",
                                      server |-> servers[tried[Len(tried)]].id,
                                      key |-> result.key]
            /\ result.threw =>
                   /\ tried = connected
                   /\ \A k \in 1..Len(tried) :
                          ~AnswersSome(servers, result.answers, tried[k])
                   /\ result.value = [msg |-> "notFound", key |-> result.key]

\* readResource has just returned the contents of the second member after
\* the first one answered without contents
C16_Witness ==
    /\ result.op = "readResource"
    /\ ~result.threw
    /\ result.tried = <<1, 2>>
    /\ result.answers[schemas[result.schema][1].id] = "empty"

(***************************************************************************)
(* Properties of paging (SpecPaging).                                      *)
(***************************************************************************)
RECURSIVE Flatten(_)
Flatten(ps) == IF ps = <<>> THEN <<>> ELSE Head(ps) \o Flatten(Tail(ps))

\* the pages obtained so far are the first Len(pages) full pages of all,
\* and more remain
PagesArePrefix(all, pageSize) ==
    /\ Len(pages) * pageSize < Len(all)
    /\ Flatten(pages) = SubSeq(all, 1, Len(pages) * pageSize)

\* the pages obtained are all of all, each but the last a full page
PagesAreAll(all, pageSize) ==
    /\ Flatten(pages) = all
    /\ \A p \in 1..(Len(pages) - 1) : Len(pages[p]) = pageSize
    /\ (Len(pages) - 1) * pageSize < Max(Len(all), 1)

\* C4: following nextCursor from a call without cursor, the pages of
\* listTools (50 each) and of listResources (20 each) concatenate to the
\* whole aggregated list, in order and without repetition; a page carries a
\* nextCursor exactly when items remain after it.
C4_PaginationComplete ==
    /\ walk = "tools" =>
           PagesArePrefix(AllTools(schemas["default"]), ToolsPageSize)
    /\ walk = "toolsDone" =>
           PagesAreAll(AllTools(schemas["default"]), ToolsPageSize)
    /\ walk = "resources" =>
           PagesArePrefix(AllResources(schemas["default"]), ResourcesPageSize)
    /\ walk = "resourcesDone" =>
           PagesAreAll(AllResources(schemas["default"]), ResourcesPageSize)

\* C4 witness: 120 tools were listed in three pages
C4_Witness ==
    /\ walk = "toolsDone"
    /\ Len(pages) = 3
    /\ Len(AllTools(schemas["default"])) = 120

\* a cursor the registry does not issue: not base64, or base64 of
\* something that is not a run of decimal digits
NotAnIssuedCursor(c) ==
    \/ ~atob(c).ok
    \/ atob(c).s = <<>>
    \/ \E i \in 1..Len(atob(c).s) : ~IsDigit(atob(c).s[i])

\* C5: listTools and listResources called with a cursor the registry did
\* not issue return what a call without cursor returns.
C5_CursorRobust ==
    /\ (walk = "toolsProbe" /\ NotAnIssuedCursor(result.cursor)) =>
           result.value = listToolsResult("default", <<>>).value
    /\ (walk = "resourcesProbe" /\ NotAnIssuedCursor(result.cursor)) =>
           result.value = listResourcesResult("default", <<>>).value

C24_ParseRequest ==
    (result.op = "parseRequest" /\ result.data.parses
         /\ result.data.value.t = "object") =>
        LET request == result.data.value
        IN  /\ (\/ request.jsonrpc = Absent
                \/ request.method = Absent
                \/ request.id = Absent
                \/ request.jsonrpc # JsonString("2.0")) =>
                   result.value = JsonNull
            /\ (/\ request.jsonrpc = JsonString("2.0")
                /\ request.method.t = "string"
                /\ request.method.s \in MCP_METHODS
                /\ request.id # Absent) =>
                   result.value = request

(***************************************************************************)
(* Properties of the STDIO front end (SpecFront, SpecFrontLive).           *)
(***************************************************************************)
\* the lines of stdout written for input line i
OutputsOf(i) == {k \in DOMAIN front.stdout : front.stdout[k].line = i}

\* a message with a method member
WellFormed(msg) == msg.method # ""

\* C21: every well-formed input message that carries an id (any JSON-RPC
\* id, 0 included) produces exactly one line on stdout, whose id equals the
\* id of the request; a message without id (a notification) produces no
\* line on stdout.
C21_ResponseCorrelation ==
    \A i \in DOMAIN front.lines :
        LET msg == front.lines[i].msg
        IN  WellFormed(msg) =>
                /\ msg.id = Undefined => OutputsOf(i) = {}
                /\ msg.id # Undefined =>
                       /\ Cardinality(OutputsOf(i)) <= 1
                       /\ front.lines[i].fate = "answered" =>
                              Cardinality(OutputsOf(i)) = 1
                       /\ \A k \in OutputsOf(i) :
                              front.stdout[k].id = msg.id

\* line i of stdin is a well-formed request: it has a method and an id
RequestArrived(i) ==
    /\ i \in DOMAIN front.lines
    /\ WellFormed(front.lines[i].msg)
    /\ front.lines[i].msg.id # Undefined

\* C22: every well-formed request line that arrives on stdin at any time
\* after start() has returned, the first moments after the start included,
\* eventually produces a response line on stdout.
C22_EveryRequestAnswered ==
    \A i \in 1..MaxLines : [](RequestArrived(i) => <>(OutputsOf(i) # {}))


(***************************************************************************)
(* Properties of one connection (SpecConn, SpecStdio).                     *)
(***************************************************************************)
\* a connection without the record of the callbacks its last handler fired
Quiet(c) == [c EXCEPT !.fired = <<>>]

\* C7: for each of the three kinds, connect() invoked while the status is
\* connected spawns no process, opens no channel, sends no request and
\* leaves the status snapshot unchanged; disconnect() invoked while the
\* status is disconnected changes nothing and fires no status callback.
C7_Idempotence ==
    [][/\ (ev'.kind = "connect" /\ conn.status = "connected") =>
              /\ getStatus(conn') = getStatus(conn)
              /\ conn'.objs = conn.objs
              /\ conn'.current = conn.current
              /\ conn'.requestId = conn.requestId
              /\ conn'.pendingRequests = conn.pendingRequests
              /\ conn'.fired = <<>>
       /\ (ev'.kind = "disconnect" /\ conn.status = "disconnected") =>
              /\ Quiet(conn') = Quiet(conn)
              /\ conn'.fired = <<>>]_vars

\* a caller has just invoked connect() on a connected connection
C7_Witness ==
    /\ ev.kind = "connect"
    /\ ev.by = "caller"
    /\ ev.before = "connected"

\* C8: on a Process or Stream Connection the deadline of a request that
\* got no response rejects its promise with a timeout and removes its
\* entry from the pending map at that moment; the requests that timed out
\* hold no entry, so after k requests that all timed out the map is
\* empty.
C8_TimeoutCorrectness ==
    /\ [](/\ conn.timedOut \cap DOMAIN conn.pendingRequests = {}
          /\ conn.timedOut = Issued => DOMAIN conn.pendingRequests = {})
    /\ [][ev'.kind = "timeout" =>
              /\ ev'.arg \in DOMAIN conn.pendingRequests
              /\ ev'.arg \notin DOMAIN conn'.pendingRequests
              /\ ev'.arg \in conn'.timedOut
              /\ DOMAIN conn'.pendingRequests \subseteq
                     DOMAIN conn.pendingRequests]_vars

\* the second of two requests has just timed out, as the first did
C8_Witness ==
    /\ conn.kind \in {"stdio", "sse"}
    /\ ev.kind = "timeout"
    /\ Cardinality(conn.timedOut) >= 2
    /\ conn.timedOut = Issued

\* the subprocess that ends in this step
Exiting(p) ==
    /\ p \in DOMAIN conn.objs
    /\ conn.objs[p].state = "running"
    /\ conn'.objs[p].state = "gone"

C10_NoResurrection ==
    (conn.kind = "stdio" /\ conn.restart /\ intent = "disconnect") =>
        ~(ev.kind = "connect" /\ ev.by = "timer")


C12_NoResurrection ==
    (conn.kind = "sse" /\ intent = "disconnect") =>
        /\ conn.status = "disconnected"
        /\ conn.timers = 0
        /\ ~(ev.kind = "connect" /\ ev.by = "timer")

\* C13: connect() of an HTTP Connection whose status is disconnected or
\* error has sent its tools/list probe and has not failed before the
\* backend answered: the first step of connect() leaves a request issued
\* and the status not error.
C13_HTTPConnect ==
    (conn.kind = "http" /\ ev.kind = "connect"
         /\ ev.before \in {"disconnected", "error"}) =>
        /\ conn.requestId > 1
        /\ conn.status # "error"

(***************************************************************************)
(* Properties of the NotificationManager (SpecHub).                        *)
(***************************************************************************)
\* how often callback occurs in list
Occurrences(list, callback) ==
    Cardinality({i \in 1..Len(list) : list[i] = callback})

\* no callback registered or unregistered a callback during the last send
ListUntouched == delivery.unregistered = {} /\ delivery.registered = {}

\* C17: in every send*Notification whose callbacks leave the list of
\* callbacks alone, each registered callback is invoked once, in order,
\* whichever of them throw; and the send throws only if the callback of
\* the progress token was called, never because a global callback threw.
C17_SubscriberIsolation ==
    /\ (delivery.delivered /\ ListUntouched) =>
           delivery.invoked = delivery.before
    /\ delivery.raised => delivery.token

\* a send has just invoked two callbacks of which the first threw
C17_Witness ==
    /\ delivery.delivered
    /\ ListUntouched
    /\ Len(delivery.before) = 2
    /\ delivery.before[1] \in delivery.threw
    /\ delivery.before[2] \notin delivery.threw
    /\ delivery.invoked = delivery.before
    /\ ~delivery.raised

\* C18: every callback that was registered (once) when a send began and
\* that no callback unregistered or registered again during the fan-out
\* was invoked exactly once by that send.
C18_FanOutToleratesMutation ==
    delivery.delivered =>
        \A c \in Elements(delivery.before) :
            (/\ Occurrences(delivery.before, c) = 1
             /\ c \notin delivery.unregistered
             /\ c \notin delivery.registered) =>
                Occurrences(delivery.invoked, c) = 1

\* C19: sendResourceUpdatedNotification(uri) reaches the global callbacks
\* exactly when uri or "*" is in the subscription set; otherwise it
\* invokes no callback.
C19_SubscriptionGating ==
    delivery.method = "notifications/resources/updated" =>
        /\ delivery.delivered <=>
               (\/ delivery.uri \in hub.subscribedResources
                \/ "*" \in hub.subscribedResources)
        /\ ~delivery.delivered => delivery.invoked = <<>>
        /\ (delivery.delivered /\ ListUntouched) =>
               delivery.invoked = delivery.before

\* an update of a URI that only the wildcard covers has just been
\* delivered to a callback
C19_Witness ==
    /\ delivery.method = "notifications/resources/updated"
    /\ delivery.uri \notin hub.subscribedResources
    /\ "*" \in hub.subscribedResources
    /\ delivery.delivered
    /\ delivery.invoked # <<>>

(***************************************************************************)
(* Properties of the dispatcher (SpecDispatch).                            *)
(***************************************************************************)
\* the notifications of the protocol among the method names passed
NotificationMethods ==
    {"notifications/initialized", "notifications/cancelled",
     "notifications/progress", "notifications/roots/list_changed"}

\* C20: handleMethod called with notifications/initialized or with any
\* other notification method throws nothing and returns an empty result;
\* it throws the unsupported-method error only for a method that is
\* neither a request it recognises nor a notification.
C20_DispatcherNotifications ==
    result.op = "handleMethod" =>
        /\ result.method \in NotificationMethods =>
               /\ ~result.threw
               /\ result.value = [payload |-> "{}"]
        /\ result.threw =>
               /\ result.method \notin RecognisedMethods
               /\ result.method \notin NotificationMethods
               /\ result.value = [msg |-> "unsupportedMethod",
                                  method |-> result.method]
(***************************************************************************)
(* Status values, connect attempts and request correlation of one          *)
(* connection (SpecConn).                                                  *)
(***************************************************************************)
\* the changes of the status value the spec allows
AllowedTransitions ==
    {<<"disconnected", "connected">>, <<"connected", "error">>,
     <<"connected", "disconnected">>}

\* C25: for every connection kind, each change of the status value is one
\* of disconnected -> connected, connected -> error and connected ->
\* disconnected.
C25_StatusTransitions ==
    [][conn'.status # conn.status =>
           <<conn.status, conn'.status>> \in AllowedTransitions]_vars

\* the connect attempts that are executing: the connect() calls between
\* their spawn or channel open and the end of their handshake
InFlight(c) == {k \in DOMAIN c.objs : c.objs[k].attempt # "done"}

\* C26: at most one connect attempt of a connection is executing at any
\* time.
C26_OneAttemptInFlight ==
    conn.kind # "none" => Cardinality(InFlight(conn)) <= 1

\* C28: disconnect() invoked on a Process or Stream Connection with k >= 0
\* outstanding requests rejects each of them and leaves the pending map
\* empty, so that neither a late response nor a deadline finds an entry of
\* these requests afterwards; the connect attempts that awaited one of
\* them take their catch block.
C28_DisconnectCancels ==
    [][(ev'.kind = "disconnect" /\ conn.kind \in {"stdio", "sse"}) =>
           /\ conn'.pendingRequests = <<>>
           /\ \A k \in PendingOwners(conn) :
                  \/ conn'.objs[k].attempt = "done"
                  \/ k \in conn'.rejected]_vars

\* the ids in the pending map of connection d that connection c has not
\* issued yet
NewIds(c, d) == DOMAIN d.pendingRequests \ DOMAIN c.pendingRequests

\* C29: every request of a Process or Stream Connection gets an id larger
\* than every id the instance issued before, and a response settles exactly
\* the outstanding request whose id it carries: that entry leaves the map,
\* its awaiter alone continues and every other outstanding request stays
\* as it was, in whatever order the responses arrive.
C29_CorrelationById ==
    [][conn.kind \in {"stdio", "sse"} =>
           /\ conn'.requestId >= conn.requestId
           /\ \A id \in NewIds(conn, conn') :
                  /\ id >= conn.requestId
                  /\ id < conn'.requestId
           /\ ev'.kind = "response" =>
                  /\ ev'.arg \in DOMAIN conn.pendingRequests
                  /\ ev'.arg \notin DOMAIN conn'.pendingRequests
                  /\ \A id \in DOMAIN conn.pendingRequests \ {ev'.arg} :
                         /\ id \in DOMAIN conn'.pendingRequests
                         /\ conn'.pendingRequests[id] =
                                conn.pendingRequests[id]
                  /\ \A k \in DOMAIN conn.objs :
                         conn'.objs[k].attempt # conn.objs[k].attempt =>
                             k = conn.pendingRequests[ev'.arg].owner]_vars

\* a response has just settled a request while an older request of the
\* same connection is still outstanding
C29_Witness ==
    /\ conn.kind \in {"stdio", "sse"}
    /\ ev.kind = "response"
    /\ \E id \in DOMAIN conn.pendingRequests : id < ev.arg

\* C30: a response whose id matches no pending request (never issued,
\* already answered or already timed out) leaves the pending map, every
\* outstanding request, the status and the rest of the connection as they
\* were, and fires no status callback.
C30_UnmatchedResponse ==
    [][ev'.kind = "lateResponse" =>
           /\ ev'.arg \notin DOMAIN conn.pendingRequests
           /\ Quiet(conn') = Quiet(conn)
           /\ conn'.fired = <<>>]_vars

\* a response to a request that has timed out has just arrived while
\* another request is outstanding
C30_Witness ==
    /\ ev.kind = "lateResponse"
    /\ ev.arg \in conn.timedOut
    /\ conn.pendingRequests # <<>>

\* the status values a handler went through: the value it found and the
\* values its callback invocations reported
StatusPath(c, d) ==
    <<c.status>> \o [i \in 1..Len(d.fired) |-> d.fired[i].status]

\* C27: the registered status callback is invoked exactly once for each
\* change of the status value and is not invoked when an update leaves the
\* value unchanged: the values reported to it differ from one to the next,
\* start from a value other than the one the handler found and end with
\* the value the handler leaves; and every invocation goes to the callback
\* of the latest onStatusChange call.
C27_StatusCallback ==
    [][/\ \A i \in 1..Len(conn'.fired) :
              /\ StatusPath(conn, conn')[i] # StatusPath(conn, conn')[i + 1]
              /\ conn'.fired[i].callback = conn'.registered
       /\ StatusPath(conn, conn')[Len(conn'.fired) + 1] = conn'.status
       /\ conn'.status # conn.status => conn'.fired # <<>>]_vars

\* the callback registered second, after the one of addServer, has just
\* been told that the connection is connected
C27_Witness ==
    /\ conn.registered = 2
    /\ conn.fired = <<[callback |-> 2, status |-> "connected"]>>
    /\ ev.kind = "response"

(***************************************************************************)
(* Bookkeeping of requests, termination of disconnect, handshake order,    *)
(* reconnect budget, readiness, framing, connectedness, subprocesses, log  *)
(* level.                                                                  *)
(***************************************************************************)
\* the three records of the outstanding requests agree
BooksAgree(c) ==
    /\ c.timeouts = DOMAIN c.pendingRequests
    /\ c.unsettled = DOMAIN c.pendingRequests

\* C31: in every reachable state of a Process or Stream connection the
\* armed deadline timers, the entries of the pending map and the requests
\* whose promise is neither resolved nor rejected are the same set of ids,
\* and a request that has been settled (by response, error response,
\* deadline, send failure or disconnect) is never settled again
C31_PendingBookkeeping ==
    /\ [](conn.kind \in {"stdio", "sse"} => BooksAgree(conn))
    /\ [][conn.kind \in {"stdio", "sse"} =>
              \A id \in Issued :
                  /\ id \notin conn.unsettled => id \notin conn'.unsettled
                  /\ id \in conn.timedOut => id \in conn'.timedOut]_vars

\* a deadline settles one request of a Stream Connection while another
\* request stays outstanding
C31_Witness ==
    /\ conn.kind = "sse"
    /\ ev.kind = "timeout"
    /\ ev.arg \notin conn.unsettled
    /\ conn.unsettled # {}

\* a caller has invoked disconnect() on a Process Connection whose status
\* was connected or error
DisconnectInvoked ==
    /\ conn.kind = "stdio"
    /\ ev.kind = "disconnect"
    /\ ev.by = "caller"
    /\ ev.before \in {"connected", "error"}

\* no disconnect() call awaits an exit event, the status is disconnected
\* and the pending map is empty
DisconnectCompleted ==
    /\ \A p \in DOMAIN conn.objs : ~conn.objs[p].awaited
    /\ conn.status = "disconnected"
    /\ conn.pendingRequests = <<>>

\* C32: disconnect() invoked on a Process Connection whose status is
\* connected or error eventually completes with status disconnected and an
\* empty pending map, whether the subprocess runs, has exited or failed to
\* spawn
C32_DisconnectTerminates == DisconnectInvoked ~> DisconnectCompleted

\* the requests a step POSTs on behalf of a connect attempt
HandshakeRequests(c, d, method) ==
    {id \in NewIds(c, d) : /\ d.pendingRequests[id].owner # 0
                           /\ d.pendingRequests[id].method = method}

\* the initialize request goes out only when the poll of waitForReady has
\* seen the endpoint that an event announced during this attempt
InitializeAfterEndpoint(c, d, e) ==
    HandshakeRequests(c, d, "initialize") # {} => e.kind = "ready"

\* the tools/list probe goes out only when the POST of the initialized
\* notification has settled
ProbeAfterNotification(c, d, e) ==
    HandshakeRequests(c, d, "tools/list") # {} => e.kind = "notified"

\* the status becomes connected only in the step that receives the
\* response to a tools/list probe
ConnectedAfterProbe(c, d, e) ==
    (c.status # "connected" /\ d.status = "connected") =>
        /\ e.kind = "response"
        /\ e.arg \in DOMAIN c.pendingRequests
        /\ c.pendingRequests[e.arg].method = "tools/list"

\* C33: during connect() of a Stream Connection nothing is POSTed before
\* the endpoint event of the attempt has been received; the messages of
\* the handshake are the initialize request, after its response the
\* initialized notification, then the tools/list probe, and the status
\* becomes connected only after the response to the probe
C33_HandshakeOrder ==
    [][conn.kind = "sse" =>
           /\ InitializeAfterEndpoint(conn, conn', ev')
           /\ ProbeAfterNotification(conn, conn', ev')
           /\ ConnectedAfterProbe(conn, conn', ev')]_vars

\* a connect attempt of the connection ends in its catch block
ConnectFails(c, d) ==
    \E k \in DOMAIN c.objs :
        /\ c.objs[k].attempt # "done"
        /\ d.objs[k].attempt = "done"
        /\ d.status = "error"

\* the current channel of the connection ends closed
ChannelCloses(c, d) ==
    /\ c.current # 0
    /\ d.current = c.current
    /\ c.objs[c.current].state # "closed"
    /\ d.objs[c.current].state = "closed"

AttemptRejects(c, d, k) ==
    /\ c.objs[k].attempt # "done"
    /\ d.objs[k].attempt = "done"
    /\ ~(c.status # "connected" /\ d.status = "connected")

\* C35: when the handshake or the readiness probe of a connect attempt
\* fails, connect() rejects with the status error and the status was not
\* connected while the attempt ran, in particular not when it rejects; when
\* the probe succeeds with n tools, toolCount is n when the status becomes
\* connected
C35_ReadinessFailure ==
    [][conn.kind # "none" =>
           /\ \A k \in DOMAIN conn.objs :
                  AttemptRejects(conn, conn', k) =>
                      /\ conn.status # "connected"
                      /\ conn'.status = "error"
           /\ (conn.status # "connected" /\ conn'.status = "connected") =>
                  /\ ev'.kind = "response"
                  /\ conn'.toolCount \in ToolCounts]_vars

\* the characters a step has taken from the pipe
ChunkRead == SubSeq(pipe.stdout, 1, Len(pipe.stdout) - Len(pipe'.stdout))

\* the requests whose response line has reached the connection in full
\* with this chunk: its last piece is in the chunk
LinesCompleted ==
    {ChunkRead[i].id : i \in {j \in DOMAIN ChunkRead :
                                  ChunkRead[j].part = LinePieces}}

\* C36: however the pipe cuts the output of the backend into chunks, every
\* response line that has reached the connection settles its pending
\* request as it would alone in one chunk, and no other request is settled
C36_ResponseFraming ==
    [][Len(pipe'.stdout) < Len(pipe.stdout) =>
           \A id \in DOMAIN conn.pendingRequests :
               id \in LinesCompleted <=> id \notin DOMAIN conn'.pendingRequests
      ]_vars

\* C37: for a connection of any kind and in every reachable state,
\* isConnected() is true exactly when the status of getStatus() is
\* connected, so that the members getSchemaStatus counts as connected are
\* the members listTools, callTool and readResource treat as connected
C37_StatusAgrees ==
    conn.kind # "none" =>
        (isConnected(conn) <=> getStatus(conn).status = "connected")

\* the subprocesses of the connection that are running
LiveProcesses(c) == {p \in DOMAIN c.objs : c.objs[p].state = "running"}

\* a step in which a subprocess other than the current one ends or reports
\* an error
StaleProcessEvent(c, d) ==
    \E p \in DOMAIN c.objs :
        /\ p # c.current
        /\ c.objs[p].state # "gone"
        /\ d.objs[p].state = "gone"

\* C38: a Process Connection has at most one live subprocess at any time,
\* and an exit or error event of a subprocess that is no longer the current
\* one changes neither the status nor the restart timers
C38_OneSubprocess ==
    /\ [](conn.kind = "stdio" => Cardinality(LiveProcesses(conn)) <= 1)
    /\ [][conn.kind = "stdio" /\ StaleProcessEvent(conn, conn') =>
              /\ conn'.status = conn.status
              /\ conn'.timers = conn.timers]_vars

\* C39: connect(), disconnect() and the requests of a connection of any
\* kind leave the level of the process-wide logger as it is: the level
\* changes only in a logging/setLevel request
C39_LogLevelFrame ==
    [][logLevel' # logLevel =>
           /\ result'.op = "handleMethod"
           /\ result'.method = "logging/setLevel"]_vars

\* C40: a Stream Connection configured with maxRetries 0 never arms a
\* reconnect timer, neither after a failed connect nor after its channel
\* closed: no reconnect timer is pending and scheduleReconnect, which
\* counts the attempts, has never run.
C40_NoReconnectAtZero ==
    (conn.kind = "sse" /\ conn.maxRetries = 0)
        => /\ conn.timers = 0
           /\ conn.reconnectAttempts = 0
====
